---- MODULE Spec2Model ----
(***************************************************************************)
(* sigtrack: the electronic-signature tracker of the DataFax toolkit.      *)
(* The model follows src/sigtrack/src (main.c, esig.c, grammar.y) and the  *)
(* range list, string list and exclusion helpers next to them.             *)
(***************************************************************************)
EXTENDS Integers, Sequences, FiniteSets, TLC

VARIABLES
    esc_config_head,       \* the configuration records, in list order
    exclusions,            \* the exclusion list (sequence of tuples)
    allow_signer_changes,  \* option -a
    resign_at_final,       \* option -F
    stdin,                 \* a prepared audit file (empty: lines arrive freely)
    pos,                   \* number of lines of stdin consumed
    sl,                    \* the audit line read last (StringList)
    txn_id,                \* process_input: current transaction id
    last_txn,              \* process_input: key of the current transaction
    tree,                  \* the eSigNodeTree (set of nodes, ordered by esn_compare)
    drf,                   \* lines written to the DRF
    pc,                    \* position of main(): input, evaluated, done
    argv,                  \* the file options of the command line, in order
    optind,                \* number of options getopt_long has returned
    yyin,                  \* the configuration file, once it is open
    opts,                  \* main: the locals config, drf and xls
    db,                    \* main: the sqlite3 handle (0: none)
    db_rows,               \* the rows of the three tables of the database
    files,                 \* the output files created so far
    exit_code,             \* the exit status (-1 while the program runs)
    ranges,                \* a RangeList
    text,                  \* the text for or of a RangeList
    rc                     \* the value rl_fromstring returned

\* what the command line and the start of main() settle
mainvars == <<argv, optind, yyin, opts, db, exit_code>>

\* the variables of the range list functions
rangevars == <<ranges, text, rc>>

vars == <<esc_config_head, exclusions, allow_signer_changes, resign_at_final,
          stdin, pos, sl, txn_id, last_txn, tree, drf, pc, db_rows, files,
          mainvars, rangevars>>

-----------------------------------------------------------------------------
(* Bounds of the model                                                      *)

\* Largest transaction id handed out when lines arrive freely.
MaxTxn == 3

-----------------------------------------------------------------------------
(* esig.h                                                                   *)

AUDITREC_DATE == 1
AUDITREC_TIME == 2
AUDITREC_USER == 3
AUDITREC_PID == 4
AUDITREC_VISIT == 5
AUDITREC_PLATE == 6
AUDITREC_FIELDREF == 7
AUDITREC_STATUS == 9
AUDITREC_LEVEL == 10
AUDITREC_OLDVALUE == 14
AUDITREC_NEWVALUE == 15
AUDITREC_FIELDPOS == 16
AUDITREC_FIELDDESC == 17
AUDITREC_OLDDECODE == 18
AUDITREC_NEWDECODE == 19

SIG_NONE == 0
SIG_COMPLETE == 1
SIG_INVALIDATED == 2

RECORD_NORMAL == 0
RECORD_ERROR == 1
RECORD_LOST == 2
RECORD_DELETED == 3

CHANGE_NONE == 0
CHANGE_ACCEPTED == 1
CHANGE_DECLINED == 2
CHANGE_DECLINED_ATFINAL == 3

NODE_FLAG_RECSEEN == 1

\* A char * that is 0.  Strings of the audit trail never take this value.
NULL == "(null)"

-----------------------------------------------------------------------------
(* Generic helpers                                                          *)

\* The elements of a finite set of integers in increasing order
\* (the in-order walk of a red-black tree keyed by an integer).
RECURSIVE InOrder(_)
InOrder(S) ==
    IF S = {} THEN <<>>
    ELSE LET m == CHOOSE a \in S : \A b \in S : a <= b
         IN  <<m>> \o InOrder(S \ {m})

\* atoi/atoll on the column texts that occur in the model: a text gives the
\* value of its leading decimal digits, an empty text or one that does not
\* start with a digit gives 0.
atoi(s) ==
    CASE s = "0" -> 0   [] s = "1" -> 1   [] s = "2" -> 2   [] s = "3" -> 3
      [] s = "5" -> 5   [] s = "7" -> 7   [] s = "8" -> 8   [] s = "9" -> 9
      [] s = "10" -> 10 [] s = "11" -> 11 [] s = "12" -> 12 [] s = "13" -> 13
      [] s = "70000" -> 70000
      [] s = "65535" -> 65535 [] s = "65536" -> 65536
      [] s = "11x" -> 11 [] s = "12x" -> 12
      [] OTHER -> 0

-----------------------------------------------------------------------------
(* Range lists (rangelist.c): a sequence of [min, max], head first          *)

rl_addtofront(l, min, max) ==
    IF min > max THEN <<[min |-> max, max |-> min]>> \o l
    ELSE <<[min |-> min, max |-> max]>> \o l

RECURSIVE rl_min_from(_, _, _)
rl_min_from(l, v, first) ==
    IF l = <<>> THEN v
    ELSE IF first \/ v > Head(l).min
         THEN rl_min_from(Tail(l), Head(l).min, FALSE)
         ELSE rl_min_from(Tail(l), v, FALSE)

rl_min(l) == rl_min_from(l, 0, TRUE)

RECURSIVE rl_width(_)
rl_width(l) ==
    IF l = <<>> THEN 0
    ELSE (Head(l).max - Head(l).min) + 1 + rl_width(Tail(l))

RECURSIVE rl_contains(_, _)
rl_contains(l, v) ==
    IF l = <<>> THEN FALSE
    ELSE IF v >= Head(l).min /\ v <= Head(l).max THEN TRUE
    ELSE rl_contains(Tail(l), v)

-----------------------------------------------------------------------------
(* String lists (stringlist.c): a line is the sequence of its columns;      *)
(* column n of the code is element n+1 here.                                *)

sl_value(l, n) ==
    IF n < 0 \/ n >= Len(l) THEN "" ELSE l[n + 1]

-----------------------------------------------------------------------------
(* Configuration parser (grammar.y).  The text of a signature definition is *)
(* given by its token values:                                               *)
(*   [name, plate, star, visits, fields, plates: <<[plate, ignore]>>]       *)
(* where a range is the sequence of its elements <<a, b>> in source order   *)
(* (a single number n is <<n, n>>) and star tells that the visits are `*'.  *)

RECURSIVE range(_)
range(elems) ==
    IF elems = <<>> THEN <<>>
    ELSE rl_addtofront(range(SubSeq(elems, 1, Len(elems) - 1)),
                       elems[Len(elems)][1], elems[Len(elems)][2])

\* variant of visit_range whose `*' is the wildcard of rl_fromstring
visit_range_WideWildcard(star, elems) ==
    IF star THEN rl_addtofront(<<>>, 0, 2147483647) ELSE range(elems)

visit_range(star, elems) ==
    IF star THEN rl_addtofront(<<>>, 0, 65535) ELSE range(elems)

\* esc_alloc followed by the assignments of the plate_defn rule
plate_defn(pd, serial) ==
    [plate |-> pd.plate, ignore_fields |-> range(pd.ignore),
     visits |-> <<>>, sig_plate |-> 0, n_sig_fields |-> 0,
     sig_fields |-> <<>>, name |-> NULL, serial |-> serial]

\* plate_config: every further plate_defn is put in front of the list
RECURSIVE plate_config(_, _)
plate_config(pds, serial0) ==
    IF pds = <<>> THEN <<>>
    ELSE <<plate_defn(pds[Len(pds)], serial0 + Len(pds))>>
         \o plate_config(SubSeq(pds, 1, Len(pds) - 1), serial0)

sig_config(sd, serial) ==
    [plate |-> 0, ignore_fields |-> <<>>,
     visits |-> visit_range(sd.star, sd.visits), sig_plate |-> sd.plate,
     n_sig_fields |-> rl_width(range(sd.fields)),
     sig_fields |-> range(sd.fields), name |-> sd.name, serial |-> serial]

\* signature: the header (allocated first) is copied into each plate record
signature(sd, serial0) ==
    LET h  == sig_config(sd, serial0 + 1)
        ps == plate_config(sd.plates, serial0 + 1)
    IN  [i \in 1..Len(ps) |->
            [ps[i] EXCEPT !.name = h.name, !.sig_plate = h.sig_plate,
                          !.visits = h.visits, !.sig_fields = h.sig_fields,
                          !.n_sig_fields = h.n_sig_fields]]

\* config: the records of each signature are appended to the list
RECURSIVE config(_, _)
config(sds, serial0) ==
    IF sds = <<>> THEN <<>>
    ELSE signature(Head(sds), serial0)
         \o config(Tail(sds), serial0 + 1 + Len(Head(sds).plates))

-----------------------------------------------------------------------------
(* Exclusions (exclusions.c)                                                *)

\* variant of is_excluded that does not look at the old value
is_excluded_AnyOldValue(l) ==
    \E i \in 1..Len(exclusions) :
        /\ exclusions[i].plate = atoi(sl_value(l, AUDITREC_PLATE))
        /\ exclusions[i].field = atoi(sl_value(l, AUDITREC_FIELDPOS))
        /\ exclusions[i].user = sl_value(l, AUDITREC_USER)
        /\ exclusions[i].date = sl_value(l, AUDITREC_DATE)

is_excluded(l) ==
    LET user       == sl_value(l, AUDITREC_USER)
        date       == sl_value(l, AUDITREC_DATE)
        orig_value == sl_value(l, AUDITREC_OLDVALUE)
        plate      == atoi(sl_value(l, AUDITREC_PLATE))
        field      == atoi(sl_value(l, AUDITREC_FIELDPOS))
    IN  \E i \in 1..Len(exclusions) :
            /\ exclusions[i].plate = plate
            /\ exclusions[i].field = field
            /\ exclusions[i].user = user
            /\ exclusions[i].date = date
            /\ orig_value = ""

-----------------------------------------------------------------------------
(* Tracked objects (esig.c)                                                 *)

Status(sig, rec, chg) ==
    [signatureStatus |-> sig, recStatus |-> rec, changeStatus |-> chg]

\* An empty red-black tree keyed by an integer (plates, changes)
EmptyTree == <<>>

fc_alloc(field) ==
    [field |-> field,
     status |-> Status(SIG_NONE, RECORD_NORMAL, CHANGE_ACCEPTED),
     desc |-> NULL, old_value |-> NULL, new_value |-> NULL, who |-> NULL,
     date |-> NULL, time |-> NULL, comment |-> NULL]

cp_alloc(plate) ==
    [plate |-> plate,
     status |-> Status(SIG_NONE, RECORD_NORMAL, CHANGE_NONE),
     is_final |-> 0, field_change_count |-> 0, changes |-> EmptyTree]

cp_free_changes(cp) == [cp EXCEPT !.changes = EmptyTree]

esn_alloc(id, visit, conf) ==
    [id |-> id, visit |-> visit, config |-> conf,
     status |-> Status(SIG_NONE, RECORD_NORMAL, CHANGE_NONE),
     signer |-> NULL, date |-> NULL, time |-> NULL, flags |-> 0,
     plates |-> EmptyTree, sig_fields |-> <<>>, txn_id |-> 0]

\* The configuration record a node points to
Config(n) == esc_config_head[n.config]

\* variant of esn_compare that tells the nodes of different records apart
esn_compare_ByRecord(a, b) ==
    LET a_field_low == rl_min(Config(a).sig_fields)
        b_field_low == rl_min(Config(b).sig_fields)
    IN  IF a.id < b.id THEN -1
        ELSE IF a.id > b.id THEN 1
        ELSE IF a.visit < b.visit THEN -1
        ELSE IF a.visit > b.visit THEN 1
        ELSE IF Config(a).sig_plate < Config(b).sig_plate THEN -1
        ELSE IF Config(a).sig_plate > Config(b).sig_plate THEN 1
        ELSE IF a_field_low < b_field_low THEN -1
        ELSE IF a_field_low > b_field_low THEN 1
        ELSE IF a.config < b.config THEN -1
        ELSE IF a.config > b.config THEN 1
        ELSE 0

esn_compare(a, b) ==
    LET a_field_low == rl_min(Config(a).sig_fields)
        b_field_low == rl_min(Config(b).sig_fields)
    IN  IF a.id < b.id THEN -1
        ELSE IF a.id > b.id THEN 1
        ELSE IF a.visit < b.visit THEN -1
        ELSE IF a.visit > b.visit THEN 1
        ELSE IF Config(a).sig_plate < Config(b).sig_plate THEN -1
        ELSE IF Config(a).sig_plate > Config(b).sig_plate THEN 1
        ELSE IF a_field_low < b_field_low THEN -1
        ELSE IF a_field_low > b_field_low THEN 1
        ELSE 0

\* variant of esn_sig_rec_seen that flips the flag
esn_sig_rec_seen_Flips(n) ==
    [n EXCEPT !.flags = IF n.flags = 0 THEN NODE_FLAG_RECSEEN ELSE 0]

esn_sig_rec_seen(n) ==
    [n EXCEPT !.flags = IF n.flags = 0 THEN NODE_FLAG_RECSEEN ELSE n.flags]

esn_was_sig_rec_seen(n) == n.flags = NODE_FLAG_RECSEEN

\* One slot per value of each interval of the signature fields, in list order
RECURSIVE sigfield_slots(_)
sigfield_slots(rl) ==
    IF rl = <<>> THEN <<>>
    ELSE [i \in 1..(Head(rl).max - Head(rl).min + 1) |->
            [field |-> Head(rl).min + i - 1, completed |-> FALSE,
             desc |-> NULL, value |-> NULL]]
         \o sigfield_slots(Tail(rl))

esn_alloc_sigfields(n) ==
    IF n.sig_fields # <<>> THEN n
    ELSE [n EXCEPT !.sig_fields = sigfield_slots(Config(n).sig_fields)]

decode_value(l, valuepos, decodepos) ==
    LET value  == sl_value(l, valuepos)
        decode == sl_value(l, decodepos)
    IN  IF decode # "" THEN value \o "=" \o decode ELSE value

\* variant of esn_free_signed_values that frees the changes but leaves the
\* plate status as it is
esn_free_signed_values_KeepsStatus(n, txn) ==
    IF n.txn_id # txn THEN n
    ELSE [n EXCEPT !.plates =
            [p \in DOMAIN n.plates |-> cp_free_changes(n.plates[p])]]

\* variant of esn_free_signed_values that leaves the signature plate as it is
esn_free_signed_values_OtherPlates(n, txn) ==
    IF n.txn_id # txn THEN n
    ELSE [n EXCEPT !.plates =
            [p \in DOMAIN n.plates |->
                IF p = Config(n).sig_plate THEN n.plates[p]
                ELSE [cp_free_changes(n.plates[p]) EXCEPT
                         !.status.recStatus = RECORD_NORMAL,
                         !.status.changeStatus = CHANGE_NONE]]]

esn_free_signed_values(n, txn) ==
    IF n.txn_id # txn THEN n
    ELSE [n EXCEPT !.plates =
            [p \in DOMAIN n.plates |->
                [cp_free_changes(n.plates[p]) EXCEPT
                    !.status.recStatus = RECORD_NORMAL,
                    !.status.changeStatus = CHANGE_NONE]]]

\* variant of esn_sign that keeps signer, date and time of a node that has
\* been signed before
esn_sign_FirstSignerKept(n, l, field, txn) ==
    LET nsf == Config(n).n_sig_fields
        sf  == [i \in 1..nsf |->
                  IF n.sig_fields[i].field = field
                  THEN [n.sig_fields[i] EXCEPT
                          !.completed = TRUE,
                          !.desc = sl_value(l, AUDITREC_FIELDDESC),
                          !.value = sl_value(l, AUDITREC_NEWVALUE)]
                  ELSE n.sig_fields[i]]
        completed == Cardinality({i \in 1..nsf : sf[i].completed})
    IN  IF completed # nsf THEN [n EXCEPT !.sig_fields = sf]
        ELSE IF n.signer # NULL
        THEN [n EXCEPT !.sig_fields = sf,
                       !.status.signatureStatus = SIG_COMPLETE,
                       !.txn_id = txn]
        ELSE [n EXCEPT !.sig_fields = sf,
                       !.status.signatureStatus = SIG_COMPLETE,
                       !.txn_id = txn,
                       !.signer = sl_value(l, AUDITREC_USER),
                       !.date = sl_value(l, AUDITREC_DATE),
                       !.time = sl_value(l, AUDITREC_TIME)]

esn_sign(n, l, field, txn) ==
    LET nsf == Config(n).n_sig_fields
        sf  == [i \in 1..nsf |->
                  IF n.sig_fields[i].field = field
                  THEN [n.sig_fields[i] EXCEPT
                          !.completed = TRUE,
                          !.desc = sl_value(l, AUDITREC_FIELDDESC),
                          !.value = sl_value(l, AUDITREC_NEWVALUE)]
                  ELSE n.sig_fields[i]]
        completed == Cardinality({i \in 1..nsf : sf[i].completed})
    IN  IF completed # nsf THEN [n EXCEPT !.sig_fields = sf]
        ELSE [n EXCEPT !.sig_fields = sf,
                       !.status.signatureStatus = SIG_COMPLETE,
                       !.txn_id = txn,
                       !.signer = sl_value(l, AUDITREC_USER),
                       !.date = sl_value(l, AUDITREC_DATE),
                       !.time = sl_value(l, AUDITREC_TIME)]

\* variant of esn_unsign that leaves the transaction id as it is
esn_unsign_KeepsTxn(n, field) ==
    [n EXCEPT !.sig_fields =
                  [i \in 1..Config(n).n_sig_fields |->
                      IF n.sig_fields[i].field = field
                      THEN [n.sig_fields[i] EXCEPT !.completed = FALSE,
                                                   !.value = ""]
                      ELSE n.sig_fields[i]],
              !.status.signatureStatus =
                  IF n.status.signatureStatus = SIG_COMPLETE
                  THEN SIG_INVALIDATED ELSE n.status.signatureStatus]

\* variant of esn_unsign that forgets who signed
esn_unsign_ForgetsSigner(n, field) ==
    LET nsf == Config(n).n_sig_fields
        sf  == [i \in 1..nsf |->
                  IF n.sig_fields[i].field = field
                  THEN [n.sig_fields[i] EXCEPT !.completed = FALSE,
                                               !.value = ""]
                  ELSE n.sig_fields[i]]
    IN  [n EXCEPT !.sig_fields = sf,
                  !.status.signatureStatus =
                      IF n.status.signatureStatus = SIG_COMPLETE
                      THEN SIG_INVALIDATED ELSE n.status.signatureStatus,
                  !.signer = NULL, !.date = NULL, !.time = NULL,
                  !.txn_id = 0]

\* variant of esn_unsign that invalidates a node that was never signed
esn_unsign_NeverSigned(n, field) ==
    LET nsf == Config(n).n_sig_fields
        sf  == [i \in 1..nsf |->
                  IF n.sig_fields[i].field = field
                  THEN [n.sig_fields[i] EXCEPT !.completed = FALSE,
                                               !.value = ""]
                  ELSE n.sig_fields[i]]
    IN  [n EXCEPT !.sig_fields = sf,
                  !.status.signatureStatus = SIG_INVALIDATED,
                  !.txn_id = 0]

esn_unsign(n, field) ==
    LET nsf == Config(n).n_sig_fields
        sf  == [i \in 1..nsf |->
                  IF n.sig_fields[i].field = field
                  THEN [n.sig_fields[i] EXCEPT !.completed = FALSE,
                                               !.value = ""]
                  ELSE n.sig_fields[i]]
    IN  [n EXCEPT !.sig_fields = sf,
                  !.status.signatureStatus =
                      IF n.status.signatureStatus = SIG_COMPLETE
                      THEN SIG_INVALIDATED ELSE n.status.signatureStatus,
                  !.txn_id = 0]

\* variant of esn_datachange that leaves recStatus as it is unless the event
\* is an error, deleted or lost one
esn_datachange_RecStatusKept(n, l, plate, field, txn) ==
    LET cp0 == IF plate \in DOMAIN n.plates THEN n.plates[plate]
               ELSE cp_alloc(plate)
        rec_status == atoi(sl_value(l, AUDITREC_STATUS))
        rec_level  == atoi(sl_value(l, AUDITREC_LEVEL))
        signed == n.status.signatureStatus # SIG_NONE
        cp1 == [cp0 EXCEPT !.is_final = IF rec_status = 0 \/ rec_status = 1
                                        THEN 1 ELSE 0]
        \* pending at level 7
        cp2 == IF rec_status = 3 /\ rec_level = 7
               THEN [cp1 EXCEPT !.status.changeStatus =
                                   IF signed THEN CHANGE_DECLINED ELSE @,
                                !.status.recStatus = RECORD_ERROR]
               ELSE cp1
        \* deleted
        cp3 == IF rec_status = 7
               THEN cp_free_changes(
                      [cp2 EXCEPT !.status.changeStatus =
                                     IF signed THEN CHANGE_DECLINED ELSE @,
                                  !.status.recStatus = RECORD_DELETED])
               ELSE cp2
        \* lost
        cp4 == IF rec_status = 0
               THEN cp_free_changes(
                      [cp3 EXCEPT !.status.changeStatus =
                                     IF signed THEN CHANGE_DECLINED ELSE @,
                                  !.status.recStatus = RECORD_LOST])
               ELSE cp3
        isnew == field \notin DOMAIN cp4.changes
        fc0 == IF isnew
               THEN [fc_alloc(field) EXCEPT !.old_value =
                        decode_value(l, AUDITREC_OLDVALUE, AUDITREC_OLDDECODE)]
               ELSE cp4.changes[field]
        fc1 == [fc0 EXCEPT
                  !.who = sl_value(l, AUDITREC_USER),
                  !.date = sl_value(l, AUDITREC_DATE),
                  !.time = sl_value(l, AUDITREC_TIME),
                  !.desc = sl_value(l, AUDITREC_FIELDDESC),
                  !.new_value =
                      decode_value(l, AUDITREC_NEWVALUE, AUDITREC_NEWDECODE)]
        fc2 == IF isnew /\ is_excluded(l)
               THEN [fc1 EXCEPT !.comment = "Administratively exempted",
                                !.status.changeStatus = CHANGE_ACCEPTED]
               ELSE [fc1 EXCEPT !.comment = NULL,
                                !.status.changeStatus = CHANGE_DECLINED]
        cp5 == IF txn = n.txn_id \/ field < 7 THEN cp4
               ELSE [cp4 EXCEPT !.changes = (field :> fc2) @@ cp4.changes]
    IN  [n EXCEPT !.plates = (plate :> cp5) @@ n.plates]

\* variant of esn_datachange that keeps the changes of a deleted record
esn_datachange_DeletedKeepsChanges(n, l, plate, field, txn) ==
    LET cp0 == IF plate \in DOMAIN n.plates THEN n.plates[plate]
               ELSE cp_alloc(plate)
        rec_status == atoi(sl_value(l, AUDITREC_STATUS))
        rec_level  == atoi(sl_value(l, AUDITREC_LEVEL))
        signed == n.status.signatureStatus # SIG_NONE
        cp1 == [cp0 EXCEPT !.status.recStatus = RECORD_NORMAL,
                           !.is_final = IF rec_status = 0 \/ rec_status = 1
                                        THEN 1 ELSE 0]
        \* pending at level 7
        cp2 == IF rec_status = 3 /\ rec_level = 7
               THEN [cp1 EXCEPT !.status.changeStatus =
                                   IF signed THEN CHANGE_DECLINED ELSE @,
                                !.status.recStatus = RECORD_ERROR]
               ELSE cp1
        \* deleted
        cp3 == IF rec_status = 7
               THEN [cp2 EXCEPT !.status.changeStatus =
                                   IF signed THEN CHANGE_DECLINED ELSE @,
                                !.status.recStatus = RECORD_DELETED]
               ELSE cp2
        \* lost
        cp4 == IF rec_status = 0
               THEN cp_free_changes(
                      [cp3 EXCEPT !.status.changeStatus =
                                     IF signed THEN CHANGE_DECLINED ELSE @,
                                  !.status.recStatus = RECORD_LOST])
               ELSE cp3
        isnew == field \notin DOMAIN cp4.changes
        fc0 == IF isnew
               THEN [fc_alloc(field) EXCEPT !.old_value =
                        decode_value(l, AUDITREC_OLDVALUE, AUDITREC_OLDDECODE)]
               ELSE cp4.changes[field]
        fc1 == [fc0 EXCEPT
                  !.who = sl_value(l, AUDITREC_USER),
                  !.date = sl_value(l, AUDITREC_DATE),
                  !.time = sl_value(l, AUDITREC_TIME),
                  !.desc = sl_value(l, AUDITREC_FIELDDESC),
                  !.new_value =
                      decode_value(l, AUDITREC_NEWVALUE, AUDITREC_NEWDECODE)]
        fc2 == IF isnew /\ is_excluded(l)
               THEN [fc1 EXCEPT !.comment = "Administratively exempted",
                                !.status.changeStatus = CHANGE_ACCEPTED]
               ELSE [fc1 EXCEPT !.comment = NULL,
                                !.status.changeStatus = CHANGE_DECLINED]
        cp5 == IF txn = n.txn_id \/ field < 7 THEN cp4
               ELSE [cp4 EXCEPT !.changes = (field :> fc2) @@ cp4.changes]
    IN  [n EXCEPT !.plates = (plate :> cp5) @@ n.plates]

\* variant of esn_datachange that takes the old value of every change
esn_datachange_OldValueLatest(n, l, plate, field, txn) ==
    LET cp0 == IF plate \in DOMAIN n.plates THEN n.plates[plate]
               ELSE cp_alloc(plate)
        rec_status == atoi(sl_value(l, AUDITREC_STATUS))
        rec_level  == atoi(sl_value(l, AUDITREC_LEVEL))
        signed == n.status.signatureStatus # SIG_NONE
        cp1 == [cp0 EXCEPT !.status.recStatus = RECORD_NORMAL,
                           !.is_final = IF rec_status = 0 \/ rec_status = 1
                                        THEN 1 ELSE 0]
        \* pending at level 7
        cp2 == IF rec_status = 3 /\ rec_level = 7
               THEN [cp1 EXCEPT !.status.changeStatus =
                                   IF signed THEN CHANGE_DECLINED ELSE @,
                                !.status.recStatus = RECORD_ERROR]
               ELSE cp1
        \* deleted
        cp3 == IF rec_status = 7
               THEN cp_free_changes(
                      [cp2 EXCEPT !.status.changeStatus =
                                     IF signed THEN CHANGE_DECLINED ELSE @,
                                  !.status.recStatus = RECORD_DELETED])
               ELSE cp2
        \* lost
        cp4 == IF rec_status = 0
               THEN cp_free_changes(
                      [cp3 EXCEPT !.status.changeStatus =
                                     IF signed THEN CHANGE_DECLINED ELSE @,
                                  !.status.recStatus = RECORD_LOST])
               ELSE cp3
        isnew == field \notin DOMAIN cp4.changes
        fc0 == [(IF isnew THEN fc_alloc(field) ELSE cp4.changes[field])
                  EXCEPT !.old_value =
                        decode_value(l, AUDITREC_OLDVALUE, AUDITREC_OLDDECODE)]
        fc1 == [fc0 EXCEPT
                  !.who = sl_value(l, AUDITREC_USER),
                  !.date = sl_value(l, AUDITREC_DATE),
                  !.time = sl_value(l, AUDITREC_TIME),
                  !.desc = sl_value(l, AUDITREC_FIELDDESC),
                  !.new_value =
                      decode_value(l, AUDITREC_NEWVALUE, AUDITREC_NEWDECODE)]
        fc2 == IF isnew /\ is_excluded(l)
               THEN [fc1 EXCEPT !.comment = "Administratively exempted",
                                !.status.changeStatus = CHANGE_ACCEPTED]
               ELSE [fc1 EXCEPT !.comment = NULL,
                                !.status.changeStatus = CHANGE_DECLINED]
        cp5 == IF txn = n.txn_id \/ field < 7 THEN cp4
               ELSE [cp4 EXCEPT !.changes = (field :> fc2) @@ cp4.changes]
    IN  [n EXCEPT !.plates = (plate :> cp5) @@ n.plates]

\* variant of esn_datachange that looks at the exclusions for every change
esn_datachange_ExclusionsAlways(n, l, plate, field, txn) ==
    LET cp0 == IF plate \in DOMAIN n.plates THEN n.plates[plate]
               ELSE cp_alloc(plate)
        rec_status == atoi(sl_value(l, AUDITREC_STATUS))
        rec_level  == atoi(sl_value(l, AUDITREC_LEVEL))
        signed == n.status.signatureStatus # SIG_NONE
        cp1 == [cp0 EXCEPT !.status.recStatus = RECORD_NORMAL,
                           !.is_final = IF rec_status = 0 \/ rec_status = 1
                                        THEN 1 ELSE 0]
        \* pending at level 7
        cp2 == IF rec_status = 3 /\ rec_level = 7
               THEN [cp1 EXCEPT !.status.changeStatus =
                                   IF signed THEN CHANGE_DECLINED ELSE @,
                                !.status.recStatus = RECORD_ERROR]
               ELSE cp1
        \* deleted
        cp3 == IF rec_status = 7
               THEN cp_free_changes(
                      [cp2 EXCEPT !.status.changeStatus =
                                     IF signed THEN CHANGE_DECLINED ELSE @,
                                  !.status.recStatus = RECORD_DELETED])
               ELSE cp2
        \* lost
        cp4 == IF rec_status = 0
               THEN cp_free_changes(
                      [cp3 EXCEPT !.status.changeStatus =
                                     IF signed THEN CHANGE_DECLINED ELSE @,
                                  !.status.recStatus = RECORD_LOST])
               ELSE cp3
        isnew == field \notin DOMAIN cp4.changes
        fc0 == IF isnew
               THEN [fc_alloc(field) EXCEPT !.old_value =
                        decode_value(l, AUDITREC_OLDVALUE, AUDITREC_OLDDECODE)]
               ELSE cp4.changes[field]
        fc1 == [fc0 EXCEPT
                  !.who = sl_value(l, AUDITREC_USER),
                  !.date = sl_value(l, AUDITREC_DATE),
                  !.time = sl_value(l, AUDITREC_TIME),
                  !.desc = sl_value(l, AUDITREC_FIELDDESC),
                  !.new_value =
                      decode_value(l, AUDITREC_NEWVALUE, AUDITREC_NEWDECODE)]
        fc2 == IF is_excluded(l)
               THEN [fc1 EXCEPT !.comment = "Administratively exempted",
                                !.status.changeStatus = CHANGE_ACCEPTED]
               ELSE [fc1 EXCEPT !.comment = NULL,
                                !.status.changeStatus = CHANGE_DECLINED]
        cp5 == IF txn = n.txn_id \/ field < 7 THEN cp4
               ELSE [cp4 EXCEPT !.changes = (field :> fc2) @@ cp4.changes]
    IN  [n EXCEPT !.plates = (plate :> cp5) @@ n.plates]

\* variant of esn_datachange that keeps the user of the first change
esn_datachange_FirstWho(n, l, plate, field, txn) ==
    LET cp0 == IF plate \in DOMAIN n.plates THEN n.plates[plate]
               ELSE cp_alloc(plate)
        rec_status == atoi(sl_value(l, AUDITREC_STATUS))
        rec_level  == atoi(sl_value(l, AUDITREC_LEVEL))
        signed == n.status.signatureStatus # SIG_NONE
        cp1 == [cp0 EXCEPT !.status.recStatus = RECORD_NORMAL,
                           !.is_final = IF rec_status = 0 \/ rec_status = 1
                                        THEN 1 ELSE 0]
        \* pending at level 7
        cp2 == IF rec_status = 3 /\ rec_level = 7
               THEN [cp1 EXCEPT !.status.changeStatus =
                                   IF signed THEN CHANGE_DECLINED ELSE @,
                                !.status.recStatus = RECORD_ERROR]
               ELSE cp1
        \* deleted
        cp3 == IF rec_status = 7
               THEN cp_free_changes(
                      [cp2 EXCEPT !.status.changeStatus =
                                     IF signed THEN CHANGE_DECLINED ELSE @,
                                  !.status.recStatus = RECORD_DELETED])
               ELSE cp2
        \* lost
        cp4 == IF rec_status = 0
               THEN cp_free_changes(
                      [cp3 EXCEPT !.status.changeStatus =
                                     IF signed THEN CHANGE_DECLINED ELSE @,
                                  !.status.recStatus = RECORD_LOST])
               ELSE cp3
        isnew == field \notin DOMAIN cp4.changes
        fc0 == IF isnew
               THEN [fc_alloc(field) EXCEPT !.old_value =
                        decode_value(l, AUDITREC_OLDVALUE, AUDITREC_OLDDECODE)]
               ELSE cp4.changes[field]
        fc1 == [fc0 EXCEPT
                  !.who = IF isnew THEN sl_value(l, AUDITREC_USER)
                         ELSE fc0.who,
                  !.date = sl_value(l, AUDITREC_DATE),
                  !.time = sl_value(l, AUDITREC_TIME),
                  !.desc = sl_value(l, AUDITREC_FIELDDESC),
                  !.new_value =
                      decode_value(l, AUDITREC_NEWVALUE, AUDITREC_NEWDECODE)]
        fc2 == IF isnew /\ is_excluded(l)
               THEN [fc1 EXCEPT !.comment = "Administratively exempted",
                                !.status.changeStatus = CHANGE_ACCEPTED]
               ELSE [fc1 EXCEPT !.comment = NULL,
                                !.status.changeStatus = CHANGE_DECLINED]
        cp5 == IF txn = n.txn_id \/ field < 7 THEN cp4
               ELSE [cp4 EXCEPT !.changes = (field :> fc2) @@ cp4.changes]
    IN  [n EXCEPT !.plates = (plate :> cp5) @@ n.plates]

esn_datachange(n, l, plate, field, txn) ==
    LET cp0 == IF plate \in DOMAIN n.plates THEN n.plates[plate]
               ELSE cp_alloc(plate)
        rec_status == atoi(sl_value(l, AUDITREC_STATUS))
        rec_level  == atoi(sl_value(l, AUDITREC_LEVEL))
        signed == n.status.signatureStatus # SIG_NONE
        cp1 == [cp0 EXCEPT !.status.recStatus = RECORD_NORMAL,
                           !.is_final = IF rec_status = 0 \/ rec_status = 1
                                        THEN 1 ELSE 0]
        \* pending at level 7
        cp2 == IF rec_status = 3 /\ rec_level = 7
               THEN [cp1 EXCEPT !.status.changeStatus =
                                   IF signed THEN CHANGE_DECLINED ELSE @,
                                !.status.recStatus = RECORD_ERROR]
               ELSE cp1
        \* deleted
        cp3 == IF rec_status = 7
               THEN cp_free_changes(
                      [cp2 EXCEPT !.status.changeStatus =
                                     IF signed THEN CHANGE_DECLINED ELSE @,
                                  !.status.recStatus = RECORD_DELETED])
               ELSE cp2
        \* lost
        cp4 == IF rec_status = 0
               THEN cp_free_changes(
                      [cp3 EXCEPT !.status.changeStatus =
                                     IF signed THEN CHANGE_DECLINED ELSE @,
                                  !.status.recStatus = RECORD_LOST])
               ELSE cp3
        isnew == field \notin DOMAIN cp4.changes
        fc0 == IF isnew
               THEN [fc_alloc(field) EXCEPT !.old_value =
                        decode_value(l, AUDITREC_OLDVALUE, AUDITREC_OLDDECODE)]
               ELSE cp4.changes[field]
        fc1 == [fc0 EXCEPT
                  !.who = sl_value(l, AUDITREC_USER),
                  !.date = sl_value(l, AUDITREC_DATE),
                  !.time = sl_value(l, AUDITREC_TIME),
                  !.desc = sl_value(l, AUDITREC_FIELDDESC),
                  !.new_value =
                      decode_value(l, AUDITREC_NEWVALUE, AUDITREC_NEWDECODE)]
        fc2 == IF isnew /\ is_excluded(l)
               THEN [fc1 EXCEPT !.comment = "Administratively exempted",
                                !.status.changeStatus = CHANGE_ACCEPTED]
               ELSE [fc1 EXCEPT !.comment = NULL,
                                !.status.changeStatus = CHANGE_DECLINED]
        cp5 == IF txn = n.txn_id \/ field < 7 THEN cp4
               ELSE [cp4 EXCEPT !.changes = (field :> fc2) @@ cp4.changes]
    IN  [n EXCEPT !.plates = (plate :> cp5) @@ n.plates]

-----------------------------------------------------------------------------
(* evaluate_tree (esig.c)                                                   *)

\* body of the loop over the field changes of a plate
\* The last steps of the loop body: store the change, count it and raise the
\* plate's changeStatus to it
store_change(cp, f) ==
    [cp EXCEPT
       !.field_change_count = @ + 1,
       !.changes = (f.field :> f) @@ cp.changes,
       !.status.changeStatus =
           IF f.status.changeStatus > @ THEN f.status.changeStatus ELSE @]

\* variant of evaluate_change that accepts the signer's changes without
\* looking at allow_signer_changes
evaluate_change_AnySigner(esn, cp, fc, allow, resign) ==
    LET f1 == IF resign # 0 /\ cp.is_final = 0
                 /\ fc.status.changeStatus = CHANGE_DECLINED
              THEN [fc EXCEPT !.status.changeStatus = CHANGE_DECLINED_ATFINAL]
              ELSE fc
        f2 == [f1 EXCEPT !.status.recStatus = cp.status.recStatus,
                         !.status.signatureStatus = cp.status.signatureStatus]
        f3 == IF f2.who # NULL /\ esn.signer # NULL /\ f2.who = esn.signer
              THEN [f2 EXCEPT !.comment = "Changed by Signer",
                              !.status.changeStatus = CHANGE_ACCEPTED]
              ELSE f2
    IN  store_change(cp, f3)

\* variant of evaluate_change that defers declined changes on final plates too
evaluate_change_AnyPlate(esn, cp, fc, allow, resign) ==
    LET f1 == IF resign # 0 /\ fc.status.changeStatus = CHANGE_DECLINED
              THEN [fc EXCEPT !.status.changeStatus = CHANGE_DECLINED_ATFINAL]
              ELSE fc
        f2 == [f1 EXCEPT !.status.recStatus = cp.status.recStatus,
                         !.status.signatureStatus = cp.status.signatureStatus]
        f3 == IF allow # 0 /\ f2.who # NULL /\ esn.signer # NULL
                 /\ f2.who = esn.signer
              THEN [f2 EXCEPT !.comment = "Changed by Signer",
                              !.status.changeStatus = CHANGE_ACCEPTED]
              ELSE f2
    IN  store_change(cp, f3)

evaluate_change(esn, cp, fc, allow, resign) ==
    LET f1 == IF resign # 0 /\ cp.is_final = 0
                 /\ fc.status.changeStatus = CHANGE_DECLINED
              THEN [fc EXCEPT !.status.changeStatus = CHANGE_DECLINED_ATFINAL]
              ELSE fc
        f2 == [f1 EXCEPT !.status.recStatus = cp.status.recStatus,
                         !.status.signatureStatus = cp.status.signatureStatus]
        f3 == IF allow # 0 /\ f2.who # NULL /\ esn.signer # NULL
                 /\ f2.who = esn.signer
              THEN [f2 EXCEPT !.comment = "Changed by Signer",
                              !.status.changeStatus = CHANGE_ACCEPTED]
              ELSE f2
    IN  store_change(cp, f3)

RECURSIVE evaluate_changes(_, _, _, _, _)
evaluate_changes(esn, cp, fields, allow, resign) ==
    IF fields = <<>> THEN cp
    ELSE evaluate_changes(
            esn,
            evaluate_change(esn, cp, cp.changes[Head(fields)], allow, resign),
            Tail(fields), allow, resign)

\* variant of evaluate_plate that does not raise the node's changeStatus
evaluate_plate_NoPropagate(esn, plate, allow, resign) ==
    LET cp0 == [esn.plates[plate] EXCEPT
                   !.status.signatureStatus = esn.status.signatureStatus,
                   !.field_change_count = 0]
        cp  == evaluate_changes(esn, cp0, InOrder(DOMAIN cp0.changes),
                                allow, resign)
    IN  [esn EXCEPT
           !.plates = (plate :> cp) @@ esn.plates,
           !.status.recStatus =
               IF Config(esn).sig_plate = cp.plate
               THEN cp.status.recStatus ELSE @]

\* variant of evaluate_plate that resets the plate's changeStatus first
evaluate_plate_ResetsPlate(esn, plate, allow, resign) ==
    LET cp0 == [esn.plates[plate] EXCEPT
                   !.status.signatureStatus = esn.status.signatureStatus,
                   !.status.changeStatus = CHANGE_NONE,
                   !.field_change_count = 0]
        cp  == evaluate_changes(esn, cp0, InOrder(DOMAIN cp0.changes),
                                allow, resign)
    IN  [esn EXCEPT
           !.plates = (plate :> cp) @@ esn.plates,
           !.status.recStatus =
               IF Config(esn).sig_plate = cp.plate
               THEN cp.status.recStatus ELSE @,
           !.status.changeStatus =
               IF cp.status.changeStatus > @ THEN cp.status.changeStatus ELSE @]

\* variant of evaluate_plate that takes the record status of every plate
evaluate_plate_AnyPlateRecord(esn, plate, allow, resign) ==
    LET cp0 == [esn.plates[plate] EXCEPT
                   !.status.signatureStatus = esn.status.signatureStatus,
                   !.field_change_count = 0]
        cp  == evaluate_changes(esn, cp0, InOrder(DOMAIN cp0.changes),
                                allow, resign)
    IN  [esn EXCEPT
           !.plates = (plate :> cp) @@ esn.plates,
           !.status.recStatus = cp.status.recStatus,
           !.status.changeStatus =
               IF cp.status.changeStatus > @ THEN cp.status.changeStatus ELSE @]

\* variant of evaluate_plate that goes on counting from the plate's count
evaluate_plate_CountKept(esn, plate, allow, resign) ==
    LET cp0 == [esn.plates[plate] EXCEPT
                   !.status.signatureStatus = esn.status.signatureStatus]
        cp  == evaluate_changes(esn, cp0, InOrder(DOMAIN cp0.changes),
                                allow, resign)
    IN  [esn EXCEPT
           !.plates = (plate :> cp) @@ esn.plates,
           !.status.recStatus =
               IF Config(esn).sig_plate = cp.plate
               THEN cp.status.recStatus ELSE @,
           !.status.changeStatus =
               IF cp.status.changeStatus > @ THEN cp.status.changeStatus ELSE @]

\* body of the loop over the covered plates of a node
evaluate_plate(esn, plate, allow, resign) ==
    LET cp0 == [esn.plates[plate] EXCEPT
                   !.status.signatureStatus = esn.status.signatureStatus,
                   !.field_change_count = 0]
        cp  == evaluate_changes(esn, cp0, InOrder(DOMAIN cp0.changes),
                                allow, resign)
    IN  [esn EXCEPT
           !.plates = (plate :> cp) @@ esn.plates,
           !.status.recStatus =
               IF Config(esn).sig_plate = cp.plate
               THEN cp.status.recStatus ELSE @,
           !.status.changeStatus =
               IF cp.status.changeStatus > @ THEN cp.status.changeStatus ELSE @]

RECURSIVE evaluate_plates(_, _, _, _)
evaluate_plates(esn, plates, allow, resign) ==
    IF plates = <<>> THEN esn
    ELSE evaluate_plates(evaluate_plate(esn, Head(plates), allow, resign),
                         Tail(plates), allow, resign)

evaluate_node(esn, allow, resign) ==
    evaluate_plates([esn EXCEPT !.status.changeStatus = CHANGE_NONE],
                    InOrder(DOMAIN esn.plates), allow, resign)

evaluate_tree(t, allow, resign) ==
    {evaluate_node(esn, allow, resign) : esn \in t}

-----------------------------------------------------------------------------
(* The database (db.c): each table is a function from its primary key to    *)
(* the other columns, and "insert or replace" overrides the row of a key.   *)
(* The statements are taken to succeed.                                     *)

NoRows == [signings |-> <<>>, signature_values |-> <<>>, data_values |-> <<>>]

\* db_write_signing_values on the statement of table tbl
db_write_signing_values(rows, tbl, txn, serial, plate, field, desc, value) ==
    [rows EXCEPT ![tbl] = (<<txn, serial, plate, field>> :> <<desc, value>>) @@ @]

\* the loop over the signature fields
RECURSIVE db_signature_values(_, _, _, _)
db_signature_values(rows, n, txn, i) ==
    IF i > Config(n).n_sig_fields THEN rows
    ELSE db_signature_values(
            db_write_signing_values(rows, "signature_values", txn,
                Config(n).serial, Config(n).sig_plate, n.sig_fields[i].field,
                n.sig_fields[i].desc, n.sig_fields[i].value),
            n, txn, i + 1)

\* the loops over the covered plates and their field changes
RECURSIVE db_data_values(_, _, _, _)
db_data_values(rows, n, txn, pfs) ==
    IF pfs = <<>> THEN rows
    ELSE LET fc == n.plates[Head(pfs)[1]].changes[Head(pfs)[2]]
         IN  db_data_values(
                db_write_signing_values(rows, "data_values", txn,
                    Config(n).serial, Head(pfs)[1], fc.field, fc.desc,
                    fc.new_value),
                n, txn, Tail(pfs))

\* all <<plate, field>> of the field changes of a node, in tree order
RECURSIVE PlateFields(_, _)
PlateFields(n, plates) ==
    IF plates = <<>> THEN <<>>
    ELSE LET fs == InOrder(DOMAIN n.plates[Head(plates)].changes)
         IN  [i \in 1..Len(fs) |-> <<Head(plates), fs[i]>>]
             \o PlateFields(n, Tail(plates))

db_write_signature(d, rows, n, txn) ==
    IF d = 0 \/ n.txn_id # txn THEN rows
    ELSE LET r1 == [rows EXCEPT !.signings =
                      (<<txn, Config(n).serial>> :>
                          <<n.id, n.visit, Config(n).sig_plate,
                            Config(n).name, n.signer, n.date, n.time>>) @@ @]
             r2 == db_signature_values(r1, n, txn, 1)
         IN  db_data_values(r2, n, txn,
                            PlateFields(n, InOrder(DOMAIN n.plates)))

db_update_signature_value(d, rows, n, plate, field, l) ==
    IF d = 0 THEN rows
    ELSE db_write_signing_values(rows, "data_values", n.txn_id,
            Config(n).serial, plate, field, sl_value(l, AUDITREC_FIELDDESC),
            decode_value(l, AUDITREC_NEWVALUE, AUDITREC_NEWDECODE))

-----------------------------------------------------------------------------
(* write_drf (main.c)                                                       *)

\* The nodes of a tree in the order of RB_FOREACH
RECURSIVE RB_FOREACH(_)
RB_FOREACH(t) ==
    IF t = {} THEN <<>>
    ELSE LET m == CHOOSE a \in t : \A b \in t : esn_compare(a, b) <= 0
         IN  <<m>> \o RB_FOREACH(t \ {m})

\* variant of drf_selects that does not look at the record status
drf_selects_AnyRecord(esn) ==
    \/ esn.status.signatureStatus = SIG_INVALIDATED
    \/ /\ esn.status.signatureStatus = SIG_COMPLETE
       /\ esn.status.changeStatus = CHANGE_DECLINED

\* variant of drf_selects that wants a NORMAL record for INVALIDATED nodes too
drf_selects_NormalOnly(esn) ==
    /\ esn.status.recStatus = RECORD_NORMAL
    /\ \/ esn.status.signatureStatus = SIG_INVALIDATED
       \/ /\ esn.status.signatureStatus = SIG_COMPLETE
          /\ esn.status.changeStatus = CHANGE_DECLINED

\* variant of drf_selects that takes DECLINED_ATFINAL as DECLINED
drf_selects_AtFinalToo(esn) ==
    \/ esn.status.signatureStatus = SIG_INVALIDATED
    \/ /\ esn.status.signatureStatus = SIG_COMPLETE
       /\ esn.status.recStatus = RECORD_NORMAL
       /\ esn.status.changeStatus >= CHANGE_DECLINED

drf_selects(esn) ==
    \/ esn.status.signatureStatus = SIG_INVALIDATED
    \/ /\ esn.status.signatureStatus = SIG_COMPLETE
       /\ esn.status.recStatus = RECORD_NORMAL
       /\ esn.status.changeStatus = CHANGE_DECLINED

drf_line(esn) == <<esn.id, esn.visit, Config(esn).sig_plate>>

write_drf(t) ==
    LET nodes == RB_FOREACH(t)
        keep  == SelectSeq(nodes, drf_selects)
    IN  [i \in 1..Len(keep) |-> drf_line(keep[i])]

-----------------------------------------------------------------------------
(* process_input and main (main.c)                                          *)

\* The locals of process_input that are computed from the line
LineField(l)     == atoi(sl_value(l, AUDITREC_FIELDPOS))
LineRecStatus(l) == atoi(sl_value(l, AUDITREC_STATUS))
LineId(l)        == atoi(sl_value(l, AUDITREC_PID))
LineVisit(l)     == atoi(sl_value(l, AUDITREC_VISIT))
LinePlate(l)     == atoi(sl_value(l, AUDITREC_PLATE))

\* variant of LineSkipped without the rule for fields 3 to 7
LineSkipped_FieldRefOnly(l) ==
    atoi(sl_value(l, AUDITREC_FIELDREF)) # 0

\* The columns that atoi or atoll reads, and the texts of the inputs that are
\* not numbers
NumericColumns ==
    {AUDITREC_PID, AUDITREC_VISIT, AUDITREC_PLATE, AUDITREC_FIELDREF,
     AUDITREC_STATUS, AUDITREC_LEVEL, AUDITREC_FIELDPOS}

NotANumber == {"x", "11x", "12x"}

\* A line that ends before its last column, or holds text where a number is
\* read
ShapeAnomaly(l) ==
    \/ Len(l) <= AUDITREC_NEWDECODE
    \/ \E c \in NumericColumns : sl_value(l, c) \in NotANumber

\* variant of LineSkipped that leaves out the lines with a shape anomaly too
LineSkipped_ShapeChecked(l) ==
    \/ atoi(sl_value(l, AUDITREC_FIELDREF)) # 0
    \/ (atoi(sl_value(l, AUDITREC_FIELDPOS)) > 2 /\ atoi(sl_value(l, AUDITREC_FIELDPOS)) <= 7)
    \/ ShapeAnomaly(l)

\* variant of LineSkipped whose field rule ends at field 6
LineSkipped_UpToSix(l) ==
    \/ atoi(sl_value(l, AUDITREC_FIELDREF)) # 0
    \/ (LineField(l) > 2 /\ LineField(l) < 7)

\* Lines the loop leaves with `continue' before the transaction id is made
LineSkipped(l) ==
    \/ atoi(sl_value(l, AUDITREC_FIELDREF)) # 0
    \/ (LineField(l) > 2 /\ LineField(l) <= 7)

\* The text "date|time|user|id|visit|plate", as the tuple of its parts
TxnKey(l) ==
    <<sl_value(l, AUDITREC_DATE), sl_value(l, AUDITREC_TIME),
      sl_value(l, AUDITREC_USER), LineId(l), LineVisit(l), LinePlate(l)>>

\* variant of ConfigApplies that does not read the ignore list
ConfigApplies_IgnoreListUnread(c, l) ==
    /\ c.plate = LinePlate(l)
    /\ rl_contains(c.visits, LineVisit(l))

\* The condition under which the for loop goes on to the next record
ConfigApplies(c, l) ==
    /\ c.plate = LinePlate(l)
    /\ rl_contains(c.visits, LineVisit(l))
    /\ ~rl_contains(c.ignore_fields, LineField(l))

\* Whether the line writes a signature field of the record's signature
IsSignatureWrite(c, l) ==
    /\ LinePlate(l) = c.sig_plate
    /\ rl_contains(c.sig_fields, LineField(l))

\* RB_INSERT on the node tree: the nodes that compare equal to esn
RB_FIND(t, esn) == {n \in t : esn_compare(esn, n) = 0}

\* The body of the for loop for an applying record: the node after it
Dispatch(t, ci, l, txn) ==
    LET c     == esc_config_head[ci]
        esn   == esn_alloc(LineId(l), LineVisit(l), ci)
        found == RB_FIND(t, esn)
        n0    == IF found # {} THEN CHOOSE n \in found : TRUE
                 ELSE esn_alloc_sigfields(esn)
        n1    == IF LinePlate(l) = c.sig_plate /\ LineRecStatus(l) # 0
                 THEN esn_sig_rec_seen(n0) ELSE n0
    IN  IF IsSignatureWrite(c, l)
        THEN IF sl_value(l, AUDITREC_NEWVALUE) # ""
             THEN esn_free_signed_values(
                     esn_sign(n1, l, LineField(l), txn), txn)
             ELSE esn_unsign(n1, LineField(l))
        ELSE esn_datachange(n1, l, LinePlate(l), LineField(l), txn)

\* One pass of the for loop: the tree after record ci has been looked at
ConfigStep(t, ci, l, txn) ==
    IF ConfigApplies(esc_config_head[ci], l)
    THEN LET n == Dispatch(t, ci, l, txn)
         IN  (t \ RB_FIND(t, n)) \cup {n}
    ELSE t

\* The for loop from record ci to the end of the list
RECURSIVE ConfigLoop(_, _, _, _)
ConfigLoop(t, ci, l, txn) ==
    IF ci > Len(esc_config_head) THEN t
    ELSE ConfigLoop(ConfigStep(t, ci, l, txn), ci + 1, l, txn)

\* variant of NextTxnId that starts a transaction with every line
NextTxnId_EveryLine(l) == txn_id + 1

\* The node record ci works on, before signing or changing data
NodeAtRecord(t, ci, l) ==
    LET c     == esc_config_head[ci]
        esn   == esn_alloc(LineId(l), LineVisit(l), ci)
        found == RB_FIND(t, esn)
        n0    == IF found # {} THEN CHOOSE n \in found : TRUE
                 ELSE esn_alloc_sigfields(esn)
    IN  IF LinePlate(l) = c.sig_plate /\ LineRecStatus(l) # 0
        THEN esn_sig_rec_seen(n0) ELSE n0

\* variant of DbStep that writes the signature after the signed values have
\* been freed
DbStep_AfterFree(rows, t, ci, l, txn) ==
    LET c  == esc_config_head[ci]
        n1 == NodeAtRecord(t, ci, l)
    IN  IF ~ConfigApplies(c, l) THEN rows
        ELSE IF IsSignatureWrite(c, l)
        THEN IF sl_value(l, AUDITREC_NEWVALUE) # ""
             THEN db_write_signature(db, rows,
                      esn_free_signed_values(
                          esn_sign(n1, l, LineField(l), txn), txn), txn)
             ELSE rows
        ELSE LET n2 == esn_datachange(n1, l, LinePlate(l), LineField(l), txn)
             IN  IF n2.txn_id = txn
                 THEN db_update_signature_value(db, rows, n2, LinePlate(l),
                                                LineField(l), l)
                 ELSE rows

\* The database calls of the body of the for loop for record ci
DbStep(rows, t, ci, l, txn) ==
    LET c  == esc_config_head[ci]
        n1 == NodeAtRecord(t, ci, l)
    IN  IF ~ConfigApplies(c, l) THEN rows
        ELSE IF IsSignatureWrite(c, l)
        THEN IF sl_value(l, AUDITREC_NEWVALUE) # ""
             THEN db_write_signature(db, rows,
                      esn_sign(n1, l, LineField(l), txn), txn)
             ELSE rows
        ELSE LET n2 == esn_datachange(n1, l, LinePlate(l), LineField(l), txn)
             IN  IF n2.txn_id = txn
                 THEN db_update_signature_value(db, rows, n2, LinePlate(l),
                                                LineField(l), l)
                 ELSE rows

\* The database after the for loop from record ci to the end of the list
RECURSIVE DbLoop(_, _, _, _, _)
DbLoop(rows, t, ci, l, txn) ==
    IF ci > Len(esc_config_head) THEN rows
    ELSE DbLoop(DbStep(rows, t, ci, l, txn), ConfigStep(t, ci, l, txn),
                ci + 1, l, txn)

\* The transaction id the line gets
NextTxnId(l) == IF TxnKey(l) # last_txn THEN txn_id + 1 ELSE txn_id

\* variant of ReadLine that makes the transaction key of a skipped line too
ReadLine_GroupsSkippedLines(l) ==
    /\ pc = "input"
    /\ sl' = l
    /\ txn_id' = NextTxnId(l)
    /\ last_txn' = TxnKey(l)
    /\ IF LineSkipped(l)
       THEN UNCHANGED <<tree, db_rows>>
       ELSE /\ tree' = ConfigLoop(tree, 1, l, NextTxnId(l))
            /\ db_rows' = DbLoop(db_rows, tree, 1, l, NextTxnId(l))
    /\ UNCHANGED <<esc_config_head, exclusions, allow_signer_changes,
                   resign_at_final, drf, pc, files, mainvars, rangevars>>

\* sl_read returned line l: one pass of the while loop
ReadLine(l) ==
    /\ pc = "input"
    /\ sl' = l
    /\ IF LineSkipped(l)
       THEN UNCHANGED <<txn_id, last_txn, tree, db_rows>>
       ELSE /\ txn_id' = NextTxnId(l)
            /\ last_txn' = TxnKey(l)
            /\ tree' = ConfigLoop(tree, 1, l, NextTxnId(l))
            /\ db_rows' = DbLoop(db_rows, tree, 1, l, NextTxnId(l))
    /\ UNCHANGED <<esc_config_head, exclusions, allow_signer_changes,
                   resign_at_final, drf, pc, files, mainvars, rangevars>>

\* sl_read resets the list and reports the end of the input: process_input
\* returns and main calls evaluate_tree.  The two options are read here for
\* the first time, so the command line is taken as an input of this step.
EvaluateTree ==
    /\ pc = "input"
    /\ pos = Len(stdin)
    /\ sl' = <<>>
    /\ \E a \in {0, 1}, r \in {0, 1} :
          /\ allow_signer_changes' = a
          /\ resign_at_final' = r
          /\ tree' = evaluate_tree(tree, a, r)
    /\ pc' = "evaluated"
    /\ UNCHANGED <<esc_config_head, exclusions, stdin, pos, txn_id,
                   last_txn, drf, db_rows, files, mainvars, rangevars>>

\* main writes the DRF if option -d named one; write_drf returns without
\* writing when the file cannot be opened, and main does not look at what it
\* returns.
WriteDrf ==
    /\ pc = "evaluated"
    /\ IF opts.drf = "ok"
       THEN /\ drf' = write_drf(tree)
            /\ files' = files \cup {"drf"}
       ELSE UNCHANGED <<drf, files>>
    /\ pc' = "done"
    /\ UNCHANGED <<esc_config_head, exclusions, allow_signer_changes,
                   resign_at_final, stdin, pos, sl, txn_id, last_txn, tree,
                   db_rows, mainvars, rangevars>>

-----------------------------------------------------------------------------
(* Inputs                                                                   *)

\* An audit line with the columns the program reads (the others are empty)
AuditLine(date, time, user, pid, visit, plate, fieldref, status, level, oldvalue, newvalue, fieldpos, fielddesc, olddecode, newdecode) ==
    <<"d", date, time, user, pid, visit, plate, fieldref, "", status, level,
      "", "", "", oldvalue, newvalue, fieldpos, fielddesc, olddecode,
      newdecode>>

\* A write to a field of patient 1, visit 1
Write(date, user, plate, fieldpos, status, level, oldvalue, newvalue) ==
    AuditLine(date, "120000", user, "1", "1", plate, "0", status, level,
              oldvalue, newvalue, fieldpos, "desc", "", "")

\* signature "B" plate 10 visit * fields 8-9 { plate 10; }
\* signature "A" plate 10 visit * fields 8 { plate 10; plate 11; }
SharedNodeConfig ==
    <<[name |-> "B", plate |-> 10, star |-> TRUE, visits |-> <<>>,
       fields |-> <<<<8, 9>>>>,
       plates |-> <<[plate |-> 10, ignore |-> <<>>]>>],
      [name |-> "A", plate |-> 10, star |-> TRUE, visits |-> <<>>,
       fields |-> <<<<8, 8>>>>,
       plates |-> <<[plate |-> 10, ignore |-> <<>>],
                    [plate |-> 11, ignore |-> <<>>]>>]>>

\* signature "A" plate 10 visit * fields 5 { plate 10; plate 11; }
S1Config ==
    <<[name |-> "A", plate |-> 10, star |-> TRUE, visits |-> <<>>,
       fields |-> <<<<5, 5>>>>,
       plates |-> <<[plate |-> 10, ignore |-> <<>>],
                    [plate |-> 11, ignore |-> <<>>]>>]>>

\* signature "A" plate 10 visit * fields 8 { plate 10; plate 11; }
S1Config8 ==
    <<[name |-> "A", plate |-> 10, star |-> TRUE, visits |-> <<>>,
       fields |-> <<<<8, 8>>>>,
       plates |-> <<[plate |-> 10, ignore |-> <<>>],
                    [plate |-> 11, ignore |-> <<>>]>>]>>

\* The exclusion file 11|12|u2|20250101, as load_exclusions stores it
ExclusionList ==
    <<[plate |-> 11, field |-> 12, user |-> "u2", date |-> "20250101"]>>

StatusLevels == {<<"1", "1">>, <<"2", "1">>, <<"3", "7">>, <<"7", "1">>,
                 <<"0", "1">>}

\* u1 writes or clears a signature field
SignatureWrites ==
    {Write("20250101", "u1", "10", f, "1", "1", "", v) :
        f \in {"8", "9"}, v \in {"", "x"}}

\* u1 changes field 12 of the signature plate, in every record state;
\* u1 and u2 change field 12 of plate 11, final or not
DataWrites ==
    {Write("20250101", "u1", "10", "12", st[1], st[2], "o", "n") :
        st \in StatusLevels}
    \cup
    {Write("20250101", uo[1], "11", "12", st, "1", uo[2], "n") :
        uo \in {<<"u1", "o">>, <<"u2", "">>, <<"u2", "o">>},
        st \in {"1", "2"}}

Events == SignatureWrites \cup DataWrites

\* The lines of the end-to-end scenarios S1..S6 and their variations
S_Write11  == Write("20250101", "u1", "11", "12", "1", "1", "o", "n")
S_Sign5    == Write("20250101", "u1", "10", "5", "1", "1", "", "u1")
S_Sign8    == Write("20250101", "u1", "10", "8", "1", "1", "", "u1")
S_Unsign5  == Write("20250101", "u1", "10", "5", "1", "1", "u1", "")
S_Unsign8  == Write("20250101", "u1", "10", "8", "1", "1", "u1", "")
S_Change   == Write("20250101", "u2", "11", "12", "1", "1", "o", "n2")
S_NotFinal == Write("20250101", "u2", "11", "12", "2", "1", "o", "n2")
S_Exempt   == Write("20250101", "u2", "11", "12", "1", "1", "", "n2")
S_OtherDay == Write("20250102", "u2", "11", "12", "1", "1", "", "n2")
S_OtherFld == Write("20250101", "u2", "11", "13", "1", "1", "", "n2")
S_OtherPlt == Write("20250101", "u2", "10", "12", "1", "1", "", "n2")
S_OtherUsr == Write("20250101", "u1", "11", "12", "1", "1", "", "n2")

ScenarioLines ==
    {S_Write11, S_Sign5, S_Sign8, S_Unsign5, S_Unsign8, S_Change, S_NotFinal,
     S_Exempt, S_OtherDay, S_OtherFld, S_OtherPlt, S_OtherUsr}

\* Longest prepared audit file
MaxLines == 3

\* The prepared audit files: every file of at most MaxLines scenario lines
ScenarioInputs ==
    UNION {[1..k -> ScenarioLines] : k \in 0..MaxLines}

\* The items of a configuration text: signature definitions, and places
\* where the text is not a signature definition
Signatures(sds) == [i \in 1..Len(sds) |-> [kind |-> "signature", sd |-> sds[i]]]

SyntaxError == [kind |-> "error", sd |-> <<>>]

\* The state of main() when process_input is called
InitWith(sds, input) ==
    /\ esc_config_head = config(sds, 0)
    /\ exclusions = ExclusionList
    /\ allow_signer_changes = 0
    /\ resign_at_final = 0
    /\ stdin = input
    /\ pos = 0
    /\ sl = <<>>
    /\ txn_id = 0
    /\ last_txn = <<>>
    /\ tree = {}
    /\ drf = <<>>
    /\ pc = "input"
    /\ argv = <<[opt |-> "c", file |-> "ok"], [opt |-> "d", file |-> "ok"]>>
    /\ optind = Len(argv)
    /\ yyin = [open |-> TRUE, items |-> Signatures(sds)]
    /\ opts = [config |-> "ok", drf |-> "ok", xls |-> "none"]
    /\ db = 0
    /\ db_rows = NoRows
    /\ files = {}
    /\ exit_code = -1
    /\ ranges = <<>>
    /\ text = <<>>
    /\ rc = 0

Init == InitWith(SharedNodeConfig, <<>>)

InitScenario ==
    \E sds \in {S1Config, S1Config8}, input \in ScenarioInputs :
        InitWith(sds, input)

\* A line arrives on standard input
ReadAny ==
    /\ stdin = <<>>
    /\ \E l \in Events :
          /\ LineSkipped(l) \/ TxnKey(l) = last_txn \/ txn_id < MaxTxn
          /\ ReadLine(l)
    /\ UNCHANGED <<stdin, pos>>

\* The next line of the prepared audit file is read
ReadStdin ==
    /\ pos < Len(stdin)
    /\ ReadLine(stdin[pos + 1])
    /\ pos' = pos + 1
    /\ UNCHANGED stdin

Next == ReadAny \/ EvaluateTree \/ WriteDrf

Spec == Init /\ [][Next]_vars

NextScenario == ReadStdin \/ EvaluateTree \/ WriteDrf

SpecScenario == InitScenario /\ [][NextScenario]_vars

-----------------------------------------------------------------------------
(* Properties                                                               *)

\* A step of the while loop of process_input that dispatched the line sl'
LineStep == pc = "input" /\ pc' = "input" /\ ~LineSkipped(sl')

\* The tree at the start of the pass of the for loop for record ci, when
\* line l is processed from tree t
RECURSIVE TreeAtRecord(_, _, _, _)
TreeAtRecord(t, ci, l, txn) ==
    IF ci = 1 THEN t
    ELSE ConfigStep(TreeAtRecord(t, ci - 1, l, txn), ci - 1, l, txn)

AllSigFieldsCompleted(n) ==
    \A i \in DOMAIN n.sig_fields : n.sig_fields[i].completed

\* C1: in every reachable state every node has signatureStatus = COMPLETE
\* exactly when every entry of its sig_fields array is completed, also when
\* records with the same signature plate and lowest signature field but
\* different signature fields share the node.
C1_CompleteIffAllCompleted ==
    \A n \in tree :
        (n.status.signatureStatus = SIG_COMPLETE) <=> AllSigFieldsCompleted(n)

\* C2: in every reachable state a node with txn_id # 0 is COMPLETE, and its
\* txn_id is the id of a transaction handed out so far.
C2_TxnIdImpliesComplete ==
    \A n \in tree :
        n.txn_id # 0 =>
            /\ n.status.signatureStatus = SIG_COMPLETE
            /\ n.txn_id \in 1..txn_id

\* C2 witness: a node completed in an earlier transaction is still COMPLETE
\* and carries the id of that transaction.
C2_Witness ==
    /\ pc = "input"
    /\ \E n \in tree :
          /\ n.txn_id # 0
          /\ n.txn_id < txn_id
          /\ n.status.signatureStatus = SIG_COMPLETE

\* The DRF condition of a node, spelled out
C3_Emitted(n) ==
    \/ n.status.signatureStatus = SIG_INVALIDATED
    \/ /\ n.status.signatureStatus = SIG_COMPLETE
       /\ n.status.recStatus = RECORD_NORMAL
       /\ n.status.changeStatus = CHANGE_DECLINED

\* C3: when the DRF has been written it holds one line patient|visit|sigPlate
\* for each node that, after propagation, is INVALIDATED or is COMPLETE with
\* a NORMAL record and changeStatus DECLINED, and no other line.
C3_DrfExactlyResign ==
    pc = "done" =>
        /\ \A n \in tree :
              C3_Emitted(n) =>
                  \E i \in DOMAIN drf :
                      drf[i] = <<n.id, n.visit, Config(n).sig_plate>>
        /\ \A i \in DOMAIN drf :
              \E n \in tree :
                  /\ C3_Emitted(n)
                  /\ drf[i] = <<n.id, n.visit, Config(n).sig_plate>>
        /\ Len(drf) = Cardinality({n \in tree : C3_Emitted(n)})

\* C3 witness: the DRF was written for a COMPLETE node with changeStatus
\* DECLINED whose signature plate record is not NORMAL (so it is left out).
C3_Witness ==
    /\ pc = "done"
    /\ drf = <<>>
    /\ \E n \in tree :
          /\ n.status.signatureStatus = SIG_COMPLETE
          /\ n.status.changeStatus = CHANGE_DECLINED
          /\ n.status.recStatus # RECORD_NORMAL

PlateClean(cp) ==
    /\ DOMAIN cp.changes = {}
    /\ cp.status.recStatus = RECORD_NORMAL
    /\ cp.status.changeStatus = CHANGE_NONE

\* Record ci makes line l a sign (a non-empty write to a signature field)
SignsAt(ci, l) ==
    /\ ConfigApplies(esc_config_head[ci], l)
    /\ IsSignatureWrite(esc_config_head[ci], l)
    /\ sl_value(l, AUDITREC_NEWVALUE) # ""

\* C4: whenever the dispatch of a line to a record signs and leaves the node
\* with txn_id equal to the current transaction, every covered plate of the
\* node has no field changes, recStatus NORMAL and changeStatus NONE.
C4_SignClearsPlates ==
    [][LineStep =>
        \A ci \in 1..Len(esc_config_head) :
            SignsAt(ci, sl') =>
                LET n == Dispatch(TreeAtRecord(tree, ci, sl', txn_id'),
                                  ci, sl', txn_id')
                IN  n.txn_id = txn_id' =>
                        \A p \in DOMAIN n.plates : PlateClean(n.plates[p])]_vars

\* C4 witness: a sign has just completed a node that had a covered plate
\* with pending changes or a record state (plate 11 or the signature plate
\* were written in an earlier transaction).
C4_Witness ==
    /\ pc = "input"
    /\ sl # <<>>
    /\ \E ci \in 1..Len(esc_config_head) : SignsAt(ci, sl)
    /\ \E n \in tree :
          /\ n.txn_id = txn_id
          /\ DOMAIN n.plates = {10, 11}

\* The audit file of scenario S1, and the same with signature field 8
S1Input  == <<S_Write11, S_Sign5>>
S1Input8 == <<S_Write11, S_Sign8>>

\* C5 as stated: with the S1 configuration (fields 5) the audit file of S1
\* ends with a COMPLETE node whose covered plate 11 has no changes, and an
\* empty DRF.
C5_S1AsStated ==
    (esc_config_head = config(S1Config, 0) /\ stdin = S1Input /\ pc = "done")
    => /\ \E n \in tree :
             /\ n.status.signatureStatus = SIG_COMPLETE
             /\ 11 \in DOMAIN n.plates
             /\ DOMAIN n.plates[11].changes = {}
       /\ drf = <<>>

\* C5 amended: with fields 5 the signature write is skipped (2 < fieldPos
\* <= 7), so the one node stays at NONE, plate 11 keeps its change of field
\* 12 and the DRF is empty; with the signature on field 8 the same audit file
\* ends with a COMPLETE node whose covered plate 11 is present without
\* changes, and an empty DRF.
C5_S1CleanSignature ==
    /\ (esc_config_head = config(S1Config, 0) /\ stdin = S1Input
        /\ pc = "done")
       => /\ Cardinality(tree) = 1
          /\ \A n \in tree :
                /\ n.status.signatureStatus = SIG_NONE
                /\ n.txn_id = 0
                /\ DOMAIN n.plates = {11}
                /\ DOMAIN n.plates[11].changes = {12}
          /\ drf = <<>>
    /\ (esc_config_head = config(S1Config8, 0) /\ stdin = S1Input8
        /\ pc = "done")
       => /\ Cardinality(tree) = 1
          /\ \A n \in tree :
                /\ n.status.signatureStatus = SIG_COMPLETE
                /\ DOMAIN n.plates = {11}
                /\ DOMAIN n.plates[11].changes = {}
          /\ drf = <<>>

\* C5 witness: the audit file of S1 with signature field 8 has been processed
\* to the end and the node is COMPLETE.
C5_Witness ==
    /\ esc_config_head = config(S1Config8, 0)
    /\ stdin = S1Input8
    /\ pc = "done"
    /\ \E n \in tree : n.status.signatureStatus = SIG_COMPLETE

\* The node of tree t that record ci selects for line l
NodesFor(t, ci, l) == RB_FIND(t, esn_alloc(LineId(l), LineVisit(l), ci))

\* Record ci makes line l a data change
ChangesAt(ci, l) ==
    /\ ConfigApplies(esc_config_head[ci], l)
    /\ ~IsSignatureWrite(esc_config_head[ci], l)

\* No record makes line l a write to a signature field
PureDataLine(l) ==
    \A ci \in 1..Len(esc_config_head) :
        ConfigApplies(esc_config_head[ci], l)
            => ~IsSignatureWrite(esc_config_head[ci], l)

\* The field change that line l is about, in node m
HasLineChange(m, l) ==
    /\ LinePlate(l) \in DOMAIN m.plates
    /\ LineField(l) \in DOMAIN m.plates[LinePlate(l)].changes

LineChange(m, l) == m.plates[LinePlate(l)].changes[LineField(l)]

DrfLines(t) == {write_drf(t)[i] : i \in DOMAIN write_drf(t)}

\* C6: a data change (fieldPos >= 8, not matched by the exclusion table) to a
\* covered plate of a COMPLETE node in another transaction than the signing
\* one leaves a FieldChange with changeStatus DECLINED; propagation with both
\* policies off then gives the node changeStatus DECLINED and, when the
\* node's record status is NORMAL, the DRF holds the node's line.
C6_PostSignChangeDeclined ==
    [][LineStep /\ PureDataLine(sl') /\ LineField(sl') >= 8
       /\ ~is_excluded(sl') =>
        \A ci \in 1..Len(esc_config_head) : \A n \in NodesFor(tree, ci, sl') :
            (/\ ChangesAt(ci, sl')
             /\ n.status.signatureStatus = SIG_COMPLETE
             /\ n.txn_id # txn_id') =>
                \E m \in NodesFor(tree', ci, sl') :
                    /\ HasLineChange(m, sl')
                    /\ LineChange(m, sl').status.changeStatus = CHANGE_DECLINED
                    /\ LET e == evaluate_node(m, 0, 0)
                       IN  /\ e.status.changeStatus = CHANGE_DECLINED
                           /\ e.status.recStatus = RECORD_NORMAL =>
                                <<m.id, m.visit, Config(m).sig_plate>>
                                    \in DrfLines(evaluate_tree(tree', 0, 0))]_vars

\* C6 witness: a line has just changed field 12 of a covered plate of a node
\* that was completed in an earlier transaction, and the change is DECLINED.
C6_Witness ==
    /\ pc = "input"
    /\ sl # <<>>
    /\ PureDataLine(sl) /\ ~is_excluded(sl) /\ LineField(sl) >= 8
    /\ \E n \in tree :
          /\ n.status.signatureStatus = SIG_COMPLETE
          /\ n.txn_id # 0 /\ n.txn_id # txn_id
          /\ HasLineChange(n, sl)
          /\ LineChange(n, sl).status.changeStatus = CHANGE_DECLINED
          /\ evaluate_node(n, 0, 0).status.recStatus = RECORD_NORMAL

\* The step of main() that runs evaluate_tree
EvalStep == pc = "input" /\ pc' = "evaluated"

\* The node of tree t with the key of node n
NodeOf(t, n) == {m \in t : esn_compare(m, n) = 0}

\* All field changes of node n, as <<plate, field>>
ChangesOf(n) ==
    UNION {{<<p, f>> : f \in DOMAIN n.plates[p].changes} : p \in DOMAIN n.plates}

\* The field change pf of node n was made by the node's signer
BySigner(n, pf) ==
    LET fc == n.plates[pf[1]].changes[pf[2]]
    IN  fc.who # NULL /\ n.signer # NULL /\ fc.who = n.signer

\* Field-level part of C7: with allowSignerChanges on, a change by the signer
\* becomes ACCEPTED "Changed by Signer" whatever resignAtFinal is; with both
\* policies off a DECLINED change stays DECLINED.
C7_FieldLevel(n, m) ==
    \A pf \in ChangesOf(n) :
        LET fc  == n.plates[pf[1]].changes[pf[2]]
            fc1 == m.plates[pf[1]].changes[pf[2]]
        IN  /\ (allow_signer_changes' = 1 /\ BySigner(n, pf)) =>
                  /\ fc1.status.changeStatus = CHANGE_ACCEPTED
                  /\ fc1.comment = "Changed by Signer"
            /\ (allow_signer_changes' = 0 /\ resign_at_final' = 0
                /\ fc.status.changeStatus = CHANGE_DECLINED) =>
                  fc1.status.changeStatus = CHANGE_DECLINED

\* A COMPLETE node that has changes, all of them by its signer
OnlySignerChanges(n) ==
    /\ n.status.signatureStatus = SIG_COMPLETE
    /\ ChangesOf(n) # {}
    /\ \A pf \in ChangesOf(n) : BySigner(n, pf)

\* No covered plate of n carries a plate-level decline (set by an error,
\* deleted or lost record event on a signed node)
NoPlateDecline(n) ==
    \A p \in DOMAIN n.plates : n.plates[p].status.changeStatus = CHANGE_NONE

\* C7 as stated: with allowSignerChanges on, a change whose who is the node's
\* signer is ACCEPTED with comment "Changed by Signer" (also when
\* resignAtFinal is on), and a COMPLETE node whose only changes are such is
\* not in the DRF; with the flag off the change stays DECLINED.
C7_AsStated ==
    [][EvalStep =>
        \A n \in tree : \A m \in NodeOf(tree', n) :
            /\ C7_FieldLevel(n, m)
            /\ (allow_signer_changes' = 1 /\ OnlySignerChanges(n)) =>
                  drf_line(m) \notin DrfLines(tree')]_vars

\* C7 amended: as stated, but the node is kept out of the DRF only when, in
\* addition, none of its covered plates carries a plate-level decline.
C7_SignerChangesAccepted ==
    [][EvalStep =>
        \A n \in tree : \A m \in NodeOf(tree', n) :
            /\ C7_FieldLevel(n, m)
            /\ (allow_signer_changes' = 1 /\ OnlySignerChanges(n)
                /\ NoPlateDecline(n)) =>
                  drf_line(m) \notin DrfLines(tree')]_vars

\* C7 witness: propagation ran with both policies on over a COMPLETE node
\* whose only change, made by the signer on a plate that is not final, is now
\* ACCEPTED "Changed by Signer"; the node's changeStatus is ACCEPTED.
C7_Witness ==
    /\ pc = "evaluated"
    /\ allow_signer_changes = 1 /\ resign_at_final = 1
    /\ \E n \in tree :
          /\ OnlySignerChanges(n)
          /\ n.status.changeStatus = CHANGE_ACCEPTED
          /\ \E pf \in ChangesOf(n) :
                /\ n.plates[pf[1]].is_final = 0
                /\ n.plates[pf[1]].changes[pf[2]].comment = "Changed by Signer"

\* C8: with resignAtFinal on (and the change not accepted as a signer's
\* change), a DECLINED FieldChange on a plate that is not final becomes
\* DECLINED_ATFINAL, the node's changeStatus becomes DECLINED_ATFINAL and a
\* COMPLETE node is not in the DRF; on a final plate the change stays
\* DECLINED.
C8_ResignAtFinal ==
    [][EvalStep /\ resign_at_final' = 1 =>
        \A n \in tree : \A m \in NodeOf(tree', n) : \A pf \in ChangesOf(n) :
            LET cp  == n.plates[pf[1]]
                fc  == cp.changes[pf[2]]
                fc1 == m.plates[pf[1]].changes[pf[2]]
            IN  (/\ fc.status.changeStatus = CHANGE_DECLINED
                 /\ (allow_signer_changes' = 0 \/ ~BySigner(n, pf))) =>
                    /\ cp.is_final = 0 =>
                          /\ fc1.status.changeStatus = CHANGE_DECLINED_ATFINAL
                          /\ m.status.changeStatus = CHANGE_DECLINED_ATFINAL
                          /\ n.status.signatureStatus = SIG_COMPLETE =>
                                drf_line(m) \notin DrfLines(tree')
                    /\ cp.is_final = 1 =>
                          fc1.status.changeStatus = CHANGE_DECLINED]_vars

\* C8 witness: propagation ran with resignAtFinal on and allowSignerChanges
\* off over a COMPLETE node with a change on a plate that is not final (now
\* DECLINED_ATFINAL) and a change on a final plate (still DECLINED).
C8_Witness ==
    /\ pc = "evaluated"
    /\ resign_at_final = 1 /\ allow_signer_changes = 0
    /\ \E n \in tree :
          /\ n.status.signatureStatus = SIG_COMPLETE
          /\ n.status.changeStatus = CHANGE_DECLINED_ATFINAL
          /\ \E pf \in ChangesOf(n) :
                /\ n.plates[pf[1]].is_final = 0
                /\ n.plates[pf[1]].changes[pf[2]].status.changeStatus
                       = CHANGE_DECLINED_ATFINAL
          /\ \E pf \in ChangesOf(n) :
                /\ n.plates[pf[1]].is_final = 1
                /\ n.plates[pf[1]].changes[pf[2]].status.changeStatus
                       = CHANGE_DECLINED

\* Record ci makes line l a write of the empty value to its signature field
UnsignsAt(ci, l) ==
    /\ ConfigApplies(esc_config_head[ci], l)
    /\ IsSignatureWrite(esc_config_head[ci], l)
    /\ sl_value(l, AUDITREC_NEWVALUE) = ""

\* C9: an empty write to a signature field of a COMPLETE node leaves the node
\* INVALIDATED with txnId 0, and the DRF written after propagation holds the
\* node's line for every combination of the two policies.
C9_UnsignInvalidates ==
    [][LineStep =>
        \A ci \in 1..Len(esc_config_head) :
            UnsignsAt(ci, sl') =>
                \A n \in NodesFor(tree, ci, sl') :
                    n.status.signatureStatus = SIG_COMPLETE =>
                        \E m \in NodeOf(tree', n) :
                            /\ m.status.signatureStatus = SIG_INVALIDATED
                            /\ m.txn_id = 0
                            /\ \A a \in {0, 1} : \A r \in {0, 1} :
                                  drf_line(m) \in
                                      DrfLines(evaluate_tree(tree', a, r))]_vars

\* C9 witness: the last line read was an empty write to a signature field; the
\* node, signed before, is INVALIDATED with txnId 0 while the record of its
\* signature plate is not NORMAL.
C9_Witness ==
    /\ pc = "input"
    /\ sl # <<>>
    /\ \E ci \in 1..Len(esc_config_head) : UnsignsAt(ci, sl)
    /\ \E n \in tree :
          /\ n.status.signatureStatus = SIG_INVALIDATED
          /\ n.txn_id = 0
          /\ n.signer # NULL
          /\ Config(n).sig_plate \in DOMAIN n.plates
          /\ n.plates[Config(n).sig_plate].status.recStatus # RECORD_NORMAL

\* The exclusion table has a row with the plate, field, user and date of l
RowMatches(l) ==
    \E i \in 1..Len(exclusions) :
        /\ exclusions[i].plate = LinePlate(l)
        /\ exclusions[i].field = LineField(l)
        /\ exclusions[i].user = sl_value(l, AUDITREC_USER)
        /\ exclusions[i].date = sl_value(l, AUDITREC_DATE)

\* Line l leaves a FieldChange in node m that node n did not have
CreatesChange(n, m, l) ==
    /\ HasLineChange(m, l)
    /\ ~HasLineChange(n, l)

\* C10: when a data change to a covered plate of a COMPLETE node creates a
\* new FieldChange, the change is ACCEPTED with comment "Administratively
\* exempted" if a row of the exclusion table equals its plate, field, user
\* and date and the line's oldValue is empty; otherwise it is DECLINED and
\* has no comment.
C10_ExemptedChange ==
    [][LineStep =>
        \A ci \in 1..Len(esc_config_head) : \A n \in NodesFor(tree, ci, sl') :
            (/\ ChangesAt(ci, sl') /\ PureDataLine(sl')
             /\ n.status.signatureStatus = SIG_COMPLETE) =>
                \A m \in NodeOf(tree', n) :
                    CreatesChange(n, m, sl') =>
                        LET fc == LineChange(m, sl')
                        IN  IF RowMatches(sl')
                               /\ sl_value(sl', AUDITREC_OLDVALUE) = ""
                            THEN /\ fc.status.changeStatus = CHANGE_ACCEPTED
                                 /\ fc.comment = "Administratively exempted"
                            ELSE /\ fc.status.changeStatus = CHANGE_DECLINED
                                 /\ fc.comment = NULL]_vars

\* C10 witness: after the completing sign of S1 the exempted write has been
\* read and its FieldChange is ACCEPTED "Administratively exempted".
C10_Witness ==
    /\ pc = "input"
    /\ sl = S_Exempt
    /\ \E n \in tree :
          /\ n.status.signatureStatus = SIG_COMPLETE
          /\ n.txn_id # 0 /\ n.txn_id # txn_id
          /\ HasLineChange(n, sl)
          /\ LineChange(n, sl).status.changeStatus = CHANGE_ACCEPTED
          /\ LineChange(n, sl).comment = "Administratively exempted"

-----------------------------------------------------------------------------
(* Audit lines of every shape                                               *)

\* u2 writes key field 1 of plate 11; u2 deletes the record with field 2
L_Key1 == Write("20250101", "u2", "11", "1", "1", "1", "o", "n")
L_Del2 == Write("20250101", "u2", "11", "2", "7", "1", "o", "n")

\* writes to the positions 5 and 7 of plate 11
L_Skip5 == Write("20250101", "u2", "11", "5", "7", "1", "o", "n")
L_Skip7 == Write("20250101", "u2", "11", "7", "1", "1", "o", "n")

\* a line that ends after the plate column
A_Short == SubSeq(S_Change, 1, AUDITREC_PLATE + 1)

\* lines with text where a number is expected: in the plate column after the
\* digits, in the field column, in the plate column from the first character
A_PlateText == Write("20250101", "u2", "11x", "12", "1", "1", "o", "n2")
A_FieldText == Write("20250101", "u2", "11", "x", "1", "1", "o", "n2")
A_NoPlate   == Write("20250101", "u2", "x", "12", "1", "1", "o", "n2")

\* writes to field 12 of plate 11 at visits 65535, 65536 and 70000
L_Visit(visit) ==
    AuditLine("20250101", "120000", "u2", "1", visit, "11", "0", "1", "1",
              "o", "n", "12", "desc", "", "")

LineEvents ==
    {S_Sign8, S_Change, S_OtherDay, S_OtherUsr, L_Key1, L_Del2, L_Skip5,
     L_Skip7, A_Short, A_PlateText, A_FieldText, A_NoPlate,
     L_Visit("65535"), L_Visit("65536"), L_Visit("70000")}

InitLines == InitWith(S1Config8, <<>>)

\* A line of any shape arrives on standard input
ReadAnyLine ==
    /\ stdin = <<>>
    /\ \E l \in LineEvents :
          /\ LineSkipped(l) \/ TxnKey(l) = last_txn \/ txn_id < MaxTxn
          /\ ReadLine(l)
    /\ UNCHANGED <<stdin, pos>>

NextLines == ReadAnyLine \/ EvaluateTree \/ WriteDrf

SpecLines == InitLines /\ [][NextLines]_vars

\* A pass of the while loop of process_input: line sl' was read
ReadStep == pc = "input" /\ pc' = "input"

\* C11: every FieldChange stored under a covered plate has field >= 7; a
\* line with fieldPos <= 7 (dispatched or skipped) neither creates nor updates
\* a FieldChange: every FieldChange after it was there before, unchanged.
C11_FieldChangesFromSeven ==
    [][/\ \A m \in tree' : \A pf \in ChangesOf(m) :
             /\ pf[2] >= 7
             /\ m.plates[pf[1]].changes[pf[2]].field = pf[2]
       /\ (ReadStep /\ LineField(sl') <= 7) =>
             \A m \in tree' : \A pf \in ChangesOf(m) :
                 \E n \in NodeOf(tree, m) :
                     /\ pf \in ChangesOf(n)
                     /\ n.plates[pf[1]].changes[pf[2]]
                            = m.plates[pf[1]].changes[pf[2]]]_vars

\* C11 witness: the line read last, in a later transaction than the first,
\* has fieldPos 2 and status 7; it left the record of plate 11 DELETED, not
\* final and without changes.
C11_Witness ==
    /\ pc = "input"
    /\ sl = L_Del2
    /\ \E n \in tree :
          /\ 11 \in DOMAIN n.plates
          /\ n.plates[11].status.recStatus = RECORD_DELETED
          /\ n.plates[11].is_final = 0
          /\ DOMAIN n.plates[11].changes = {}
          /\ txn_id > 1

NodeKey(n) ==
    <<n.id, n.visit, Config(n).sig_plate,
      CHOOSE f \in 0..13 :
          /\ \E i \in 1..Len(Config(n).sig_fields) :
                Config(n).sig_fields[i].min = f
          /\ \A i \in 1..Len(Config(n).sig_fields) :
                Config(n).sig_fields[i].min >= f>>

\* The key that record ci gives to the node of line l
RecordKey(ci, l) ==
    NodeKey(esn_alloc(LineId(l), LineVisit(l), ci))

\* C13: no two nodes of the tree have the same key; a node keeps the
\* configuration record it was created with and never loses a covered plate;
\* every record that applies to a dispatched line finds its node under the
\* record's key, and a data change through it adds the line's plate there.
C13_OneNodePerKey ==
    [][/\ \A a \in tree' : \A b \in tree' : NodeKey(a) = NodeKey(b) => a = b
       /\ \A n \in tree : \E m \in tree' :
             /\ NodeKey(m) = NodeKey(n)
             /\ m.config = n.config
             /\ DOMAIN n.plates \subseteq DOMAIN m.plates
       /\ LineStep =>
             \A ci \in 1..Len(esc_config_head) :
                 ConfigApplies(esc_config_head[ci], sl') =>
                     \E m \in tree' :
                         /\ NodeKey(m) = RecordKey(ci, sl')
                         /\ ChangesAt(ci, sl') =>
                               LinePlate(sl') \in DOMAIN m.plates]_vars

\* C13 witness: the one node was created by the plate-11 record of signature
\* A (record 2) and holds plate 10 as well, added through the records of
\* plate 10 of both signatures; field 9, a signature field of B only, has a
\* FieldChange there from A's record.
C13_Witness ==
    /\ Cardinality(tree) = 1
    /\ \E n \in tree :
          /\ n.config = 2
          /\ DOMAIN n.plates = {10, 11}
          /\ 9 \in DOMAIN n.plates[10].changes

-----------------------------------------------------------------------------
(* Range lists and their texts (rangelist.c).  A text is the sequence of    *)
(* its characters.                                                          *)

Digits == <<"0", "1", "2", "3", "4", "5", "6", "7", "8", "9">>

isdigit(c) == \E d \in 1..10 : Digits[d] = c

isspace(c) == c = " "

\* *s - '0'
DigitValue(c) == (CHOOSE d \in 1..10 : Digits[d] = c) - 1

\* the conversion %lld
RECURSIVE DecimalDigits(_)
DecimalDigits(v) ==
    IF v < 10 THEN <<Digits[v + 1]>>
    ELSE DecimalDigits(v \div 10) \o <<Digits[(v % 10) + 1]>>

lld(v) == IF v < 0 THEN <<"-">> \o DecimalDigits(0 - v) ELSE DecimalDigits(v)

\* variant of rl_tostring that puts a comma after the last element too
RECURSIVE rl_tostring_CommaAfterEach(_)
rl_tostring_CommaAfterEach(l) ==
    IF l = <<>> THEN <<>>
    ELSE lld(Head(l).min)
         \o (IF Head(l).min # Head(l).max
             THEN <<"-">> \o lld(Head(l).max) ELSE <<>>)
         \o <<",">>
         \o rl_tostring_CommaAfterEach(Tail(l))

RECURSIVE rl_tostring(_)
rl_tostring(l) ==
    IF l = <<>> THEN <<>>
    ELSE lld(Head(l).min)
         \o (IF Head(l).min # Head(l).max
             THEN <<"-">> \o lld(Head(l).max) ELSE <<>>)
         \o (IF Tail(l) # <<>> THEN <<",">> ELSE <<>>)
         \o rl_tostring(Tail(l))

\* the inner loop over a run of digits that starts at s[i]: <<v, next i>>
RECURSIVE DigitRun(_, _, _)
DigitRun(s, i, v) ==
    IF i <= Len(s) /\ isdigit(s[i])
    THEN DigitRun(s, i + 1, (v * 10) + DigitValue(s[i]))
    ELSE <<v, i>>

\* The loop of rl_fromstring from s[i] on.  made holds the elements linked
\* so far, open tells whether l points to the last of them, last is the
\* token before.
RECURSIVE rl_scan(_, _, _, _, _)
rl_scan(s, i, made, open, last) ==
    IF i > Len(s)
    THEN [rc |-> IF last # "NUMBER" THEN -1 ELSE 0, made |-> made]
    ELSE IF isspace(s[i]) THEN rl_scan(s, i + 1, made, open, last)
    ELSE IF isdigit(s[i])
    THEN LET run == DigitRun(s, i, 0)
             v   == run[1]
         IN  IF last = "DASH"
             THEN IF open
                  THEN LET e == made[Len(made)]
                           f == IF e.min > v THEN [min |-> v, max |-> e.min]
                                ELSE [min |-> e.min, max |-> v]
                       IN  rl_scan(s, run[2], [made EXCEPT ![Len(made)] = f],
                                   FALSE, "NUMBER")
                  ELSE [rc |-> -1, made |-> made]
             ELSE rl_scan(s, run[2], made \o <<[min |-> v, max |-> v]>>,
                          TRUE, "NUMBER")
    ELSE IF s[i] = "," THEN rl_scan(s, i + 1, made, FALSE, "COMMA")
    ELSE IF s[i] = "-" THEN rl_scan(s, i + 1, made, open, "DASH")
    ELSE [rc |-> -1, made |-> made]

\* rl0 is the list *rl of the caller, which stays as it was when the text
\* holds no number that starts an element
rl_fromstring(rl0, s) ==
    IF s = <<>> THEN [rc |-> 0, rl |-> <<>>]
    ELSE IF s = <<"*">>
    THEN [rc |-> 0, rl |-> <<[min |-> 0, max |-> 2147483647]>>]
    ELSE LET r == rl_scan(s, 1, <<>>, FALSE, "NUMBER")
         IN  [rc |-> r.rc, rl |-> IF r.made = <<>> THEN rl0 ELSE r.made]

-----------------------------------------------------------------------------
(* Range lists built front first, printed, and read back from texts         *)

MaxRanges == 3

RangeValues == {-1, 0, 10}

T_Example    == <<"1", "-", "3", ",", "5", ",", "7", "-", "1", "0">>
T_Star       == <<"*">>
T_Stray      == <<"1", "-", "3", ",", "x">>
T_TrailDash  == <<"5", "-">>
T_TrailComma == <<"1", "-", "3", ",">>
T_Letter     == <<"x">>
T_Inverted   == <<"3", "-", "1">>
T_Overlap    == <<"1", "-", "3", ",", "3", "-", "5">>
T_DashFirst  == <<"-", "5">>
T_Spaces     == <<" ", "7", " ", ",", " ", "9", " ">>

CentreTexts ==
    {T_Example, T_Star, <<>>, T_Stray, T_TrailDash, T_TrailComma, T_Letter,
     T_Inverted, T_Overlap, T_DashFirst, T_Spaces}

RangeFrame ==
    UNCHANGED <<esc_config_head, exclusions, allow_signer_changes,
                resign_at_final, stdin, pos, sl, txn_id, last_txn, tree, drf,
                db_rows, files, mainvars>>

AddToFront ==
    /\ Len(ranges) < MaxRanges
    /\ \E min \in RangeValues, max \in RangeValues :
           ranges' = rl_addtofront(ranges, min, max)
    /\ pc' = "rl_addtofront"
    /\ UNCHANGED <<text, rc>>
    /\ RangeFrame

RangesToString ==
    /\ text' = rl_tostring(ranges)
    /\ pc' = "rl_tostring"
    /\ UNCHANGED <<ranges, rc>>
    /\ RangeFrame

RangesFromString ==
    /\ LET r == rl_fromstring(ranges, text)
       IN  ranges' = r.rl /\ rc' = r.rc
    /\ pc' = "rl_fromstring"
    /\ UNCHANGED text
    /\ RangeFrame

\* one line of the country file: the third column goes into the centers of
\* a country that calloc has just zeroed
LoadCountry ==
    /\ \E s \in CentreTexts :
           /\ text' = s
           /\ LET r == rl_fromstring(<<>>, s)
              IN  ranges' = r.rl /\ rc' = r.rc
    /\ pc' = "load_countries"
    /\ RangeFrame

InitRanges == InitWith(S1Config8, <<>>)

NextRanges == AddToFront \/ RangesToString \/ RangesFromString \/ LoadCountry

SpecRanges == InitRanges /\ [][NextRanges]_vars

-----------------------------------------------------------------------------
(* C14: membership and width of a range list                                *)

InSomeInterval(r, v) == \E i \in DOMAIN r : r[i].min <= v /\ v <= r[i].max

ProbeValues == (-1 .. 12) \cup {65535, 65536, 70000, 2147483647}

\* the values of a list can be listed, and its width stays below 2^31, when
\* no interval is as wide as the wildcard's
Listable(r) == \A i \in DOMAIN r : r[i].max - r[i].min < 100

Covered(r) == UNION {r[i].min .. r[i].max : i \in DOMAIN r}

\* C14: contains(r, v) holds exactly when some interval of r holds v, and
\* width(r) is the number of integers that r contains, for every range list,
\* overlapping or repeated intervals included.
C14_WidthIsCardinality ==
    /\ \A v \in ProbeValues : rl_contains(ranges, v) <=> InSomeInterval(ranges, v)
    /\ Listable(ranges) => rl_width(ranges) = Cardinality(Covered(ranges))

-----------------------------------------------------------------------------
(* C15: printing a range list and reading the text back                     *)

Canonical(r) == \A i \in DOMAIN r : r[i].min >= 0 /\ r[i].min <= r[i].max

ExampleList ==
    <<[min |-> 1, max |-> 3], [min |-> 5, max |-> 5], [min |-> 7, max |-> 10]>>

\* C15: for every canonical range list r (no negative bound, min <= max in
\* each interval) rl_fromstring(rl_tostring(r)) succeeds and gives the same
\* intervals in the same order; the text 1-3,5,7-10 is read as three
\* intervals, is printed back as 1-3,5,7-10, has width 8, does not contain 4
\* and contains 8.
C15_RoundTrip ==
    /\ Canonical(ranges) =>
           rl_fromstring(<<>>, rl_tostring(ranges)) = [rc |-> 0, rl |-> ranges]
    /\ (pc = "load_countries" /\ text = T_Example) =>
           /\ rc = 0
           /\ ranges = ExampleList
           /\ rl_tostring(ranges) = T_Example
           /\ rl_width(ranges) = 8
           /\ ~rl_contains(ranges, 4)
           /\ rl_contains(ranges, 8)

\* a list of three intervals was printed and the text read back
C15_Witness ==
    /\ pc = "rl_fromstring"
    /\ Len(ranges) = 3
    /\ Canonical(ranges)
    /\ ranges # ExampleList
    /\ text = rl_tostring(ranges)
    /\ rc = 0

-----------------------------------------------------------------------------
(* C19: a country whose centre list is malformed                            *)

\* C19: when the centre list of a country is malformed (rl_fromstring gives
\* an error) the centers of the country are empty afterwards: they contain
\* no value, and no interval read before the offending character remains.
C19_MalformedResetsField ==
    (pc = "load_countries" /\ rc # 0) =>
        /\ ranges = <<>>
        /\ \A v \in ProbeValues : ~rl_contains(ranges, v)

-----------------------------------------------------------------------------
(* main(): the command line, the configuration file, the run and its end    *)

\* yyerror counts every syntax error the parser reports
get_config_error_cnt(items) ==
    Cardinality({i \in DOMAIN items : items[i].kind = "error"})

\* yyparse over the items from the i-th on.  acc is the value of the rule
\* config on the parser's stack, head is esc_config_head: a signature is
\* appended to acc and the result stored in esc_config_head; a syntax error
\* unwinds the stack, and the rule `error }' starts again from nothing.
RECURSIVE yyparse(_, _, _, _, _)
yyparse(items, i, acc, head, serial) ==
    IF i > Len(items) THEN head
    ELSE IF items[i].kind = "error"
    THEN yyparse(items, i + 1, <<>>, head, serial)
    ELSE LET s2 == acc \o signature(items[i].sd, serial)
         IN  yyparse(items, i + 1, s2, s2,
                     serial + 1 + Len(items[i].sd.plates))

MainFrame ==
    UNCHANGED <<exclusions, allow_signer_changes, resign_at_final, stdin,
                pos, sl, txn_id, last_txn, tree, drf, db_rows, argv,
                rangevars>>

\* One pass of the getopt_long loop
GetOpt ==
    /\ pc = "getopt"
    /\ optind < Len(argv)
    /\ optind' = optind + 1
    /\ LET o == argv[optind + 1]
       IN  CASE o.opt = "c" ->
                  IF o.file = "unopenable"
                  THEN /\ exit_code' = 2
                       /\ pc' = "exit"
                       /\ opts' = [opts EXCEPT !.config = o.file]
                       /\ UNCHANGED <<yyin, db>>
                  ELSE /\ opts' = [opts EXCEPT !.config = o.file]
                       /\ yyin' = [yyin EXCEPT !.open = TRUE]
                       /\ UNCHANGED <<db, exit_code, pc>>
             [] o.opt = "d" ->
                  /\ opts' = [opts EXCEPT !.drf = o.file]
                  /\ UNCHANGED <<yyin, db, exit_code, pc>>
             [] o.opt = "D" ->
                  /\ db' = IF o.file = "ok" THEN 1 ELSE 0
                  /\ UNCHANGED <<yyin, opts, exit_code, pc>>
             [] o.opt = "x" ->
                  /\ opts' = [opts EXCEPT !.xls = o.file]
                  /\ UNCHANGED <<yyin, db, exit_code, pc>>
    /\ UNCHANGED <<esc_config_head, files>>
    /\ MainFrame

\* variant of ParseConfig that goes on to process_input whatever the error
\* count is
ParseConfig_CountIgnored ==
    /\ pc = "getopt"
    /\ optind = Len(argv)
    /\ IF opts.config = "none"
       THEN /\ exit_code' = 2
            /\ pc' = "exit"
            /\ UNCHANGED esc_config_head
       ELSE /\ esc_config_head' = yyparse(yyin.items, 1, <<>>, <<>>, 0)
            /\ pc' = "input"
            /\ UNCHANGED exit_code
    /\ UNCHANGED <<optind, yyin, opts, db, files>>
    /\ MainFrame

\* After the options: the check for a configuration file, yyparse, and the
\* check of the error count.
ParseConfig ==
    /\ pc = "getopt"
    /\ optind = Len(argv)
    /\ IF opts.config = "none"
       THEN /\ exit_code' = 2
            /\ pc' = "exit"
            /\ UNCHANGED esc_config_head
       ELSE /\ esc_config_head' = yyparse(yyin.items, 1, <<>>, <<>>, 0)
            /\ IF get_config_error_cnt(yyin.items) # 0
               THEN exit_code' = 2 /\ pc' = "exit"
               ELSE pc' = "input" /\ UNCHANGED exit_code
    /\ UNCHANGED <<optind, yyin, opts, db, files>>
    /\ MainFrame

\* After write_drf: write_xls if -x named a file, db_close, exit(0)
Finish ==
    /\ pc = "done"
    /\ files' = IF opts.xls = "ok" THEN files \cup {"xls"} ELSE files
    /\ exit_code' = 0
    /\ pc' = "exit"
    /\ UNCHANGED <<esc_config_head, optind, yyin, opts, db>>
    /\ MainFrame

\* The option values: a file that can be opened and one that cannot
Targets == {"ok", "unopenable"}

\* Command lines with the options in the order c, d, D, x, each of them
\* present or not
OptionChoices(o) == {<<>>} \cup {<<[opt |-> o, file |-> f]>> : f \in Targets}

CommandLines ==
    {c \o d \o dd \o x : c \in OptionChoices("c"), d \in OptionChoices("d"),
                         dd \in OptionChoices("D"), x \in OptionChoices("x")}

ConfigFiles ==
    {Signatures(S1Config8),
     <<SyntaxError>>,
     Signatures(S1Config8) \o <<SyntaxError>>,
     <<SyntaxError>> \o Signatures(S1Config8)}

MainInputs ==
    {<<>>, <<S_Write11, S_Sign8>>, <<S_Write11, S_Sign8, S_Change>>}

InitMain ==
    \E a \in CommandLines, items \in ConfigFiles, input \in MainInputs :
        /\ esc_config_head = <<>>
        /\ exclusions = ExclusionList
        /\ allow_signer_changes = 0
        /\ resign_at_final = 0
        /\ stdin = input
        /\ pos = 0
        /\ sl = <<>>
        /\ txn_id = 0
        /\ last_txn = <<>>
        /\ tree = {}
        /\ drf = <<>>
        /\ pc = "getopt"
        /\ argv = a
        /\ optind = 0
        /\ yyin = [open |-> FALSE, items |-> items]
        /\ opts = [config |-> "none", drf |-> "none", xls |-> "none"]
        /\ db = 0
        /\ db_rows = NoRows
        /\ files = {}
        /\ exit_code = -1
        /\ ranges = <<>>
        /\ text = <<>>
        /\ rc = 0

NextMain ==
    GetOpt \/ ParseConfig \/ ReadStdin \/ EvaluateTree \/ WriteDrf \/ Finish

SpecMain == InitMain /\ [][NextMain]_vars

-----------------------------------------------------------------------------
(* C16: syntax errors in the configuration                                  *)

\* C16: if the configuration holds at least one syntax error, the run ends
\* with exit code 2 before any audit line is read: no node is created and
\* no DRF, no XLSX and no database row is produced.
C16_ConfigErrorAborts ==
    (\E i \in DOMAIN yyin.items : yyin.items[i] = SyntaxError) =>
        /\ pc \in {"getopt", "exit"}
        /\ pc = "exit" => exit_code = 2
        /\ pos = 0 /\ sl = <<>>
        /\ tree = {}
        /\ drf = <<>> /\ files = {}
        /\ db_rows = NoRows

\* a configuration with a signature definition after the error was parsed,
\* with audit lines waiting, a database open and a DRF and an XLSX asked for
C16_Witness ==
    /\ pc = "exit" /\ exit_code = 2
    /\ yyin.open
    /\ yyin.items = <<SyntaxError>> \o Signatures(S1Config8)
    /\ esc_config_head # <<>>
    /\ stdin # <<>>
    /\ db = 1 /\ opts.drf = "ok" /\ opts.xls = "ok"

-----------------------------------------------------------------------------
(* C17: targets that cannot be opened                                       *)

\* option o was read from the command line and names a file that cannot be
\* opened
OpenFails(o) ==
    \E i \in 1..optind : argv[i].opt = o /\ argv[i].file = "unopenable"

\* C17: when the configuration file, the database or the DRF cannot be
\* opened the run is aborted with exit code 2; it never ends with exit code 0
\* after the database or the DRF failed to open.
C17_OpenFailureAborts ==
    (pc = "exit" /\ (OpenFails("c") \/ OpenFails("D") \/ OpenFails("d"))) =>
        exit_code = 2

-----------------------------------------------------------------------------
(* C18: audit lines with a shape anomaly                                    *)

AppliesSomewhere(l) ==
    \E ci \in 1..Len(esc_config_head) : ConfigApplies(esc_config_head[ci], l)

\* C18 as stated: an audit line with a shape anomaly (too few columns, or
\* text where a number is expected) is skipped: it creates no node and no
\* covered plate, changes no status and adds no FieldChange.
C18_AnomalousLineSkipped ==
    [][(ReadStep /\ ShapeAnomaly(sl')) => tree' = tree]_vars

\* C18 (amended): the shape of a line is not checked.  A missing column is
\* read as the empty text, atoi gives the leading digits of a text (0 when
\* there are none), and the line is handled by the numbers that result: it
\* leaves the tree as it is only if those numbers fall under the skip rules
\* or no configuration record applies to them; otherwise every record that
\* applies has its node in the tree afterwards, with the line's plate among
\* the covered plates when the line is a data change.
C18_AnomalousLineRead ==
    [][(ReadStep /\ ShapeAnomaly(sl')) =>
          IF \/ atoi(sl_value(sl', AUDITREC_FIELDREF)) # 0
             \/ atoi(sl_value(sl', AUDITREC_FIELDPOS)) \in 3..7
             \/ ~AppliesSomewhere(sl')
          THEN tree' = tree
          ELSE \A ci \in 1..Len(esc_config_head) :
                   ConfigApplies(esc_config_head[ci], sl') =>
                       \E m \in tree' :
                           /\ NodeKey(m) = RecordKey(ci, sl')
                           /\ ChangesAt(ci, sl') =>
                                 LinePlate(sl') \in DOMAIN m.plates]_vars

\* the line that ends after the plate column was the first line read: it
\* made the node and plate 11, as a lost record
C18_Witness ==
    /\ pc = "input"
    /\ sl = A_Short
    /\ ShapeAnomaly(sl)
    /\ \E n \in tree :
          /\ 11 \in DOMAIN n.plates
          /\ n.plates[11].status.recStatus = RECORD_LOST

-----------------------------------------------------------------------------
(* C20: the wildcard `*'                                                    *)

VisitLines == {L_Visit("65535"), L_Visit("65536"), L_Visit("70000")}

\* rl_fromstring("*") is the one interval [0, 2^31 - 1]
StarText ==
    LET r == rl_fromstring(<<>>, T_Star)
    IN  /\ r.rc = 0
        /\ r.rl = <<[min |-> 0, max |-> 2147483647]>>
        /\ \A v \in ProbeValues : rl_contains(r.rl, v) <=> v >= 0

\* C20 as stated: `*' is the range [0, 2^31 - 1]; a signature with `visit *'
\* applies to an audit event of every visit number in that range, visit 70000
\* for one, just as rl_fromstring("*") contains every such number.
C20_WildcardAnyVisit ==
    [][/\ StarText
       /\ (ReadStep /\ sl' \in VisitLines) =>
              /\ AppliesSomewhere(sl')
              /\ \E n \in tree' : n.visit = LineVisit(sl')]_vars

\* C20 (amended): the text `*' given to rl_fromstring is [0, 2^31 - 1], but
\* `visit *' in a signature definition is [0, 65535]: the signature applies
\* to the events of the visits 0..65535 and to no event of a greater visit
\* number (65536, 70000), which leaves the tree as it is.
C20_VisitWildcardTo65535 ==
    [][/\ StarText
       /\ (ReadStep /\ sl' \in VisitLines) =>
              IF LineVisit(sl') <= 65535
              THEN /\ AppliesSomewhere(sl')
                   /\ \E n \in tree' : n.visit = LineVisit(sl')
              ELSE /\ ~AppliesSomewhere(sl')
                   /\ tree' = tree]_vars

\* the event of visit 70000 was read after the event of visit 65535: there
\* is a node of visit 65535 and none of visit 70000
C20_Witness ==
    /\ pc = "input"
    /\ sl = L_Visit("70000")
    /\ \E n \in tree : n.visit = 65535
    /\ \A n \in tree : n.visit # 70000
    /\ \A ci \in 1..Len(esc_config_head) :
           esc_config_head[ci].visits = <<[min |-> 0, max |-> 65535]>>

-----------------------------------------------------------------------------
(* C21: the transaction grouper and the skipped lines                       *)

\* The lines of a file that the loop does not skip, in their order
RECURSIVE DispatchedLines(_)
DispatchedLines(ls) ==
    IF ls = <<>> THEN <<>>
    ELSE IF atoi(sl_value(Head(ls), AUDITREC_FIELDREF)) # 0
            \/ atoi(sl_value(Head(ls), AUDITREC_FIELDPOS)) \in 3..7
    THEN DispatchedLines(Tail(ls))
    ELSE <<Head(ls)>> \o DispatchedLines(Tail(ls))

\* The number of places in a sequence of lines where the key differs from
\* the key of the line before (the first line counts)
KeyChanges(ls) ==
    Cardinality({i \in 1..Len(ls) : i = 1 \/ TxnKey(ls[i]) # TxnKey(ls[i - 1])})

LinesRead == SubSeq(stdin, 1, pos)

-----------------------------------------------------------------------------
(* Records with an ignore list and a visit range                            *)

\* signature "A" plate 10 visit 1-2 fields 8
\*     { plate 10 ignore fields 9; plate 11 ignore fields 12-13; }
\* signature "B" plate 10 visit 1-2 fields 9 { plate 10 ignore fields 9; }
IgnoreConfig ==
    <<[name |-> "A", plate |-> 10, star |-> FALSE, visits |-> <<<<1, 2>>>>,
       fields |-> <<<<8, 8>>>>,
       plates |-> <<[plate |-> 10, ignore |-> <<<<9, 9>>>>],
                    [plate |-> 11, ignore |-> <<<<12, 13>>>>]>>],
      [name |-> "B", plate |-> 10, star |-> FALSE, visits |-> <<<<1, 2>>>>,
       fields |-> <<<<9, 9>>>>,
       plates |-> <<[plate |-> 10, ignore |-> <<<<9, 9>>>>]>>]>>

\* u1 writes newvalue to a field of a plate of patient 1 at some visit
VisitWrite(visit, plate, fieldpos, status, newvalue) ==
    AuditLine("20250101", "120000", "u1", "1", visit, plate, "0", status, "1", "o", newvalue, fieldpos, "desc", "", "")

ApplyEvents ==
    {VisitWrite(v, "10", "8", "1", nv) : v \in {"1", "3"}, nv \in {"", "x"}}
    \cup {VisitWrite("1", "10", "9", st, "x") : st \in {"1", "0", "7"}}
    \cup {VisitWrite("1", "11", "12", st, "n") : st \in {"1", "0", "7"}}
    \cup {VisitWrite("1", "11", "14", st, "n") : st \in {"1", "0", "7"}}
    \cup {VisitWrite("3", "11", "14", st, "n") : st \in {"0", "7"}}

InitApplies == InitWith(IgnoreConfig, <<>>)

ReadApplyEvent ==
    /\ stdin = <<>>
    /\ \E l \in ApplyEvents :
          /\ LineSkipped(l) \/ TxnKey(l) = last_txn \/ txn_id < MaxTxn
          /\ ReadLine(l)
    /\ UNCHANGED <<stdin, pos>>

NextApplies == ReadApplyEvent \/ EvaluateTree \/ WriteDrf

SpecApplies == InitApplies /\ [][NextApplies]_vars

-----------------------------------------------------------------------------
(* C22: an event acts through the records that apply to it                  *)

\* record c has the plate of line l, holds its visit, and does not ignore
\* its field
InEffect(c, l) ==
    /\ c.plate = atoi(sl_value(l, AUDITREC_PLATE))
    /\ \E i \in DOMAIN c.visits :
          /\ c.visits[i].min <= atoi(sl_value(l, AUDITREC_VISIT))
          /\ atoi(sl_value(l, AUDITREC_VISIT)) <= c.visits[i].max
    /\ \A i \in DOMAIN c.ignore_fields :
          \/ atoi(sl_value(l, AUDITREC_FIELDPOS)) < c.ignore_fields[i].min
          \/ atoi(sl_value(l, AUDITREC_FIELDPOS)) > c.ignore_fields[i].max

\* C22: an event changes a node only through a configuration record that
\* applies (same plate, visit in the visits, field not in the ignore list).
\* An event to which no record applies, because its field is in the ignore
\* list of its plate or its visit is out of range, leaves the tree as it
\* is: no node, no RECSEEN, no record status, no FieldChange discarded, even
\* with status 0 or 7 or on a signature field; and every node that differs
\* after an event is the node of a record that applies to it.
C22_OnlyApplyingRecords ==
    [][ReadStep =>
          /\ (\A ci \in DOMAIN esc_config_head :
                  ~InEffect(esc_config_head[ci], sl')) => tree' = tree
          /\ \A m \in tree' :
                 m \in tree \/
                 \E ci \in DOMAIN esc_config_head :
                     /\ InEffect(esc_config_head[ci], sl')
                     /\ NodeKey(m) = RecordKey(ci, sl')]_vars

\* a deletion that names the ignored field 9 of plate 10, a signature field
\* of B, was read when a node held a FieldChange on plate 10: the change and
\* the record status are still there
C22_Witness ==
    /\ pc = "input"
    /\ sl = VisitWrite("1", "10", "9", "7", "x")
    /\ \A ci \in DOMAIN esc_config_head : ~InEffect(esc_config_head[ci], sl)
    /\ \E n \in tree :
          /\ 10 \in DOMAIN n.plates
          /\ DOMAIN n.plates[10].changes # {}
          /\ n.plates[10].status.recStatus = RECORD_NORMAL
          /\ n.flags = NODE_FLAG_RECSEEN

-----------------------------------------------------------------------------
(* C23: the RECSEEN flag                                                    *)

\* The line is dispatched to a record with the key of node m, names the
\* signature plate of that record and has a status other than 0
SeenThrough(m, l) ==
    /\ atoi(sl_value(l, AUDITREC_FIELDREF)) = 0
    /\ atoi(sl_value(l, AUDITREC_FIELDPOS)) \notin 3..7
    /\ atoi(sl_value(l, AUDITREC_STATUS)) # 0
    /\ \E ci \in DOMAIN esc_config_head :
          /\ InEffect(esc_config_head[ci], l)
          /\ RecordKey(ci, l) = NodeKey(m)
          /\ atoi(sl_value(l, AUDITREC_PLATE)) = esc_config_head[ci].sig_plate

\* C23: a node has the RECSEEN flag exactly when some event processed so far
\* applied to a record of the node with the record's signature plate and a
\* status other than 0; the flag, once set, is cleared by no later event and
\* by no later step.  Step by step: after a line the flag of a node is set
\* exactly when it was set before or the line is such an event, and every
\* other step keeps the flags.
C23_RecSeen ==
    [][/\ \A n \in tree : \E m \in tree' :
             /\ NodeKey(m) = NodeKey(n)
             /\ n.flags = NODE_FLAG_RECSEEN => m.flags = NODE_FLAG_RECSEEN
       /\ \A m \in tree' :
             /\ m.flags \in {0, NODE_FLAG_RECSEEN}
             /\ m.flags = NODE_FLAG_RECSEEN <=>
                   \/ \E n \in tree : /\ NodeKey(n) = NodeKey(m)
                                      /\ n.flags = NODE_FLAG_RECSEEN
                   \/ ReadStep /\ SeenThrough(m, sl')]_vars

\* the record of the signature plate was reported lost (status 0) after an
\* earlier event had set the flag: the plate is LOST and the flag is still set
C23_Witness ==
    /\ pc = "input"
    /\ sl = Write("20250101", "u1", "10", "12", "0", "1", "o", "n")
    /\ \E n \in tree :
          /\ n.flags = NODE_FLAG_RECSEEN
          /\ 10 \in DOMAIN n.plates
          /\ n.plates[10].status.recStatus = RECORD_LOST

-----------------------------------------------------------------------------
(* Prepared files of signature writes and data changes of the signature     *)
(* plate, in the transaction of the sign and in a later one                 *)

\* u1 changes field 12 of plate 10 in the transaction of S_Sign8, and on the
\* next day
T_Data     == Write("20250101", "u1", "10", "12", "1", "1", "o", "n")
T_DataLate == Write("20250102", "u1", "10", "12", "1", "1", "o", "n")

\* u2 signs on the next day
T_SignLate == Write("20250102", "u2", "10", "8", "1", "1", "", "u2")

TxnLines == {S_Sign8, S_Unsign8, T_Data, T_DataLate, T_SignLate, S_Write11}

TxnInputs == UNION {[1..k -> TxnLines] : k \in 0..(MaxLines + 1)}

InitTxn == \E input \in TxnInputs : InitWith(S1Config8, input)

SpecTxn == InitTxn /\ [][NextScenario]_vars

-----------------------------------------------------------------------------
(* C24: data changes of the signature plate in the signing transaction      *)

\* Line l writes a value to, or clears, a signature field of the one
\* signature; line l changes another field of the signature plate
IsSign(l) ==
    /\ atoi(sl_value(l, AUDITREC_PLATE)) = 10
    /\ atoi(sl_value(l, AUDITREC_FIELDPOS)) = 8
    /\ sl_value(l, AUDITREC_NEWVALUE) # ""

IsUnsign(l) ==
    /\ atoi(sl_value(l, AUDITREC_PLATE)) = 10
    /\ atoi(sl_value(l, AUDITREC_FIELDPOS)) = 8
    /\ sl_value(l, AUDITREC_NEWVALUE) = ""

IsSigPlateData(l) ==
    /\ atoi(sl_value(l, AUDITREC_PLATE)) = 10
    /\ atoi(sl_value(l, AUDITREC_FIELDPOS)) > 8

\* The lines i..j of the file are one transaction
OneTxn(i, j) == \A k \in i..j : TxnKey(stdin[k]) = TxnKey(stdin[i])

Recorded(l) == \E n \in tree : HasLineChange(n, l)

\* C24 as stated: a data change of the signature plate in the transaction
\* in which the obligation becomes COMPLETE leaves no FieldChange, whether it
\* comes before the completing signature write or after it; a data change in
\* another transaction after the sign is recorded.
C24_SigningTxnLeavesNoChange ==
    pc = "input" =>
        \A i \in 1..pos, j \in 1..pos :
            (IsSign(stdin[i]) /\ IsSigPlateData(stdin[j])) =>
                /\ (i > j /\ pos = i /\ OneTxn(j, i)) => ~Recorded(stdin[j])
                /\ (i < j /\ pos = j /\ OneTxn(i, j)) => ~Recorded(stdin[j])
                /\ (i < j /\ pos = j /\ ~OneTxn(i, j)) => Recorded(stdin[j])

\* the signature is not written or cleared between the lines i and j
SignStandsSince(i, j) ==
    \A k \in (i + 1)..(j - 1) : ~IsSign(stdin[k]) /\ ~IsUnsign(stdin[k])

\* C24 (amended): a completing sign discards the data changes made before it,
\* those of its own transaction included; a data change of the signature
\* plate after the sign leaves no FieldChange if it is in the transaction of
\* the sign and the signature was not cleared in between, since then txnId =
\* node.txnId; it is recorded if it is in another transaction or if the
\* signature was cleared in between (unsign sets node.txnId to 0), even within
\* the signing transaction.
C24_DroppedWhileTxnIdStands ==
    pc = "input" =>
        \A i \in 1..pos, j \in 1..pos :
            (IsSign(stdin[i]) /\ IsSigPlateData(stdin[j])) =>
                /\ (j < i /\ pos = i) =>
                      \A n \in tree : ChangesOf(n) = {}
                /\ (i < j /\ pos = j /\ SignStandsSince(i, j)) =>
                      (OneTxn(i, j) <=> ~Recorded(stdin[j]))
                /\ (i < j /\ pos = j
                          /\ (\A k \in (i + 1)..(j - 1) : ~IsSign(stdin[k]))
                          /\ (\E u \in (i + 1)..(j - 1) : IsUnsign(stdin[u]))) =>
                      Recorded(stdin[j])

\* sign, unsign and data change in one transaction: the change is recorded
\* on the invalidated node
C24_Witness ==
    /\ pc = "input"
    /\ stdin = <<S_Sign8, S_Unsign8, T_Data>>
    /\ pos = 3
    /\ OneTxn(1, 3)
    /\ txn_id = 1
    /\ \E n \in tree :
          /\ n.status.signatureStatus = SIG_INVALIDATED
          /\ HasLineChange(n, T_Data)

-----------------------------------------------------------------------------
(* C25: signing again                                                       *)

NotInDrfNow(m) ==
    \A a \in {0, 1}, r \in {0, 1} :
        drf_line(m) \notin DrfLines(evaluate_tree(tree', a, r))

\* C25: every sign that leaves all signature fields completed accepts the
\* data again: a non-empty write to a signature field of a node that is
\* COMPLETE already, or INVALIDATED and complete again by the write, sets
\* txnId to the current transaction, replaces signer, date and time by those
\* of the line, and discards every FieldChange of every covered plate, so
\* that the node is not in the DRF if no further line follows.
C25_SignAgainAccepts ==
    [][(ReadStep /\ IsSign(sl')) =>
          \A n \in tree :
              n.status.signatureStatus \in {SIG_COMPLETE, SIG_INVALIDATED} =>
                  \E m \in tree' :
                      /\ NodeKey(m) = NodeKey(n)
                      /\ AllSigFieldsCompleted(m)
                      /\ m.status.signatureStatus = SIG_COMPLETE
                      /\ m.txn_id = txn_id'
                      /\ m.signer = sl_value(sl', AUDITREC_USER)
                      /\ m.date = sl_value(sl', AUDITREC_DATE)
                      /\ m.time = sl_value(sl', AUDITREC_TIME)
                      /\ ChangesOf(m) = {}
                      /\ \A p \in DOMAIN m.plates :
                             m.plates[p].status.changeStatus = CHANGE_NONE
                      /\ NotInDrfNow(m)]_vars

\* u1 signed, cleared the signature and changed field 12, and u2 signed on
\* the next day: the node is u2's, its txn_id is that of the second
\* transaction, and the change of field 12 is gone
C25_Witness ==
    /\ pc = "input"
    /\ stdin = <<S_Sign8, S_Unsign8, T_Data, T_SignLate>>
    /\ pos = 4
    /\ \E n \in tree :
          /\ n.status.signatureStatus = SIG_COMPLETE
          /\ n.signer = "u2" /\ n.date = "20250102"
          /\ n.txn_id = txn_id /\ txn_id = 2
          /\ 10 \in DOMAIN n.plates
          /\ ChangesOf(n) = {}

-----------------------------------------------------------------------------
(* C26: the record status of a covered plate                                *)

\* The record status that the status and level columns of line l stand for
EventRecStatus(l) ==
    LET rec_status == atoi(sl_value(l, AUDITREC_STATUS))
        rec_level  == atoi(sl_value(l, AUDITREC_LEVEL))
    IN  IF rec_status = 0 THEN RECORD_LOST
        ELSE IF rec_status = 7 THEN RECORD_DELETED
        ELSE IF rec_status = 3 /\ rec_level = 7 THEN RECORD_ERROR
        ELSE RECORD_NORMAL

\* C26: after every data change the recStatus of the line's plate in the
\* node is the one the line's status and level stand for (ERROR for 3 at
\* level 7, DELETED for 7, LOST for 0, NORMAL otherwise), whatever it was
\* before, and a changeStatus DECLINED that the plate had before the data
\* change is still there.  The data change is the pass of the for loop for a
\* record ci that applies and does not take the line as a signature write.
C26_RecStatusFromEvent ==
    [][LineStep =>
        \A ci \in 1..Len(esc_config_head) :
            ChangesAt(ci, sl') =>
                LET before == TreeAtRecord(tree, ci, sl', txn_id')
                    after  == TreeAtRecord(tree, ci + 1, sl', txn_id')
                IN  /\ NodesFor(after, ci, sl') # {}
                    /\ \A m \in NodesFor(after, ci, sl') :
                          /\ LinePlate(sl') \in DOMAIN m.plates
                          /\ m.plates[LinePlate(sl')].status.recStatus
                                = EventRecStatus(sl')
                          /\ \A n \in NodesFor(before, ci, sl') :
                                (/\ LinePlate(sl') \in DOMAIN n.plates
                                 /\ n.plates[LinePlate(sl')].status.changeStatus
                                       = CHANGE_DECLINED)
                                => m.plates[LinePlate(sl')].status.changeStatus
                                       = CHANGE_DECLINED
                    /\ (ci = Len(esc_config_head) \/ PureDataLine(sl'))
                          => NodesFor(tree', ci, sl') = NodesFor(after, ci, sl')]_vars

\* C26 witness: an ordinary change of field 12 of plate 10 has been read, and
\* the plate is NORMAL with changeStatus DECLINED and no FieldChange but the
\* line's: only a lost or deleted event on the signed node leaves the plate
\* so.
C26_Witness ==
    /\ pc = "input"
    /\ sl = Write("20250101", "u1", "10", "12", "1", "1", "o", "n")
    /\ \E n \in tree :
          /\ 10 \in DOMAIN n.plates
          /\ n.plates[10].status.recStatus = RECORD_NORMAL
          /\ n.plates[10].status.changeStatus = CHANGE_DECLINED
          /\ DOMAIN n.plates[10].changes \subseteq {12}
          /\ n.status.signatureStatus # SIG_NONE

-----------------------------------------------------------------------------
(* C27: deleted and lost records                                            *)

\* Line l reports the record as deleted or lost
IsDeletedOrLost(l) ==
    LET rec_status == atoi(sl_value(l, AUDITREC_STATUS))
    IN  rec_status = 7 \/ rec_status = 0

\* The changeStatus of plate p in the nodes ns; NONE if the plate is not there
PlateChangeStatus(ns, p) ==
    IF \E n \in ns : p \in DOMAIN n.plates
    THEN LET n == CHOOSE n \in ns : p \in DOMAIN n.plates
         IN  n.plates[p].status.changeStatus
    ELSE CHANGE_NONE

\* C27: a data change with status 7 or 0 leaves the line's plate with no
\* FieldChange of an earlier event: the plate holds at most one FieldChange,
\* for the line's field, and it carries the line's user, date, old and new
\* value.  The plate's changeStatus is DECLINED if the node's signatureStatus
\* is not NONE when the data change is made, and otherwise what it was.
C27_DeletedOrLostDiscards ==
    [][LineStep =>
        \A ci \in 1..Len(esc_config_head) :
            (ChangesAt(ci, sl') /\ IsDeletedOrLost(sl')) =>
                LET before == NodesFor(TreeAtRecord(tree, ci, sl', txn_id'),
                                       ci, sl')
                    after  == NodesFor(TreeAtRecord(tree, ci + 1, sl', txn_id'),
                                       ci, sl')
                    p      == LinePlate(sl')
                IN  /\ after # {}
                    /\ (ci = Len(esc_config_head) \/ PureDataLine(sl'))
                          => NodesFor(tree', ci, sl') = after
                    /\ \A m \in after :
                          /\ p \in DOMAIN m.plates
                          /\ DOMAIN m.plates[p].changes \subseteq {LineField(sl')}
                          /\ \A f \in DOMAIN m.plates[p].changes :
                                LET fc == m.plates[p].changes[f]
                                IN  /\ fc.who = sl_value(sl', AUDITREC_USER)
                                    /\ fc.date = sl_value(sl', AUDITREC_DATE)
                                    /\ fc.time = sl_value(sl', AUDITREC_TIME)
                                    /\ fc.old_value =
                                          sl_value(sl', AUDITREC_OLDVALUE)
                                    /\ fc.new_value =
                                          sl_value(sl', AUDITREC_NEWVALUE)
                          /\ m.plates[p].status.changeStatus =
                                IF m.status.signatureStatus # SIG_NONE
                                THEN CHANGE_DECLINED
                                ELSE PlateChangeStatus(before, p)]_vars

\* C27 witness: field 12 of plate 10 has been written with status 7 in a
\* transaction after the signing one of a signed node; the plate is DELETED
\* and DECLINED and holds the FieldChange of field 12 alone.
C27_Witness ==
    /\ pc = "input"
    /\ sl = Write("20250101", "u1", "10", "12", "7", "1", "o", "n")
    /\ \E n \in tree :
          /\ n.status.signatureStatus # SIG_NONE
          /\ n.txn_id # txn_id
          /\ 10 \in DOMAIN n.plates
          /\ n.plates[10].status.recStatus = RECORD_DELETED
          /\ n.plates[10].status.changeStatus = CHANGE_DECLINED
          /\ DOMAIN n.plates[10].changes = {12}

-----------------------------------------------------------------------------
(* C28: the values of a FieldChange                                         *)

\* u2 reports the record of plate 11 as lost; u1 changes field 12 of plate 11
\* a day later, with a decoded new value
V_Lost  == Write("20250101", "u2", "11", "12", "0", "1", "", "y")
V_Later ==
    AuditLine("20250102", "130000", "u1", "1", "1", "11", "0", "1", "1",
              "n", "m", "12", "desc2", "", "M")

\* u1 deletes the record of plate 10 (a change of field 12)
V_Deleted == Write("20250101", "u1", "10", "12", "7", "1", "o", "n")

ValueLines ==
    {S_Sign8, S_Unsign8, T_Data, S_Write11, S_Exempt, V_Lost, V_Later,
     V_Deleted}

\* Every audit file of at most MaxLines of these lines
ValueInputs == UNION {[1..k -> ValueLines] : k \in 0..MaxLines}

InitValues == \E input \in ValueInputs : InitWith(S1Config8, input)

SpecValues == InitValues /\ [][NextScenario]_vars

\* Line l is dispatched; a record takes it as a write to a signature field;
\* a record takes it as a data change of field f of plate p
IsDispatched(l) ==
    /\ atoi(sl_value(l, AUDITREC_FIELDREF)) = 0
    /\ atoi(sl_value(l, AUDITREC_FIELDPOS)) \notin 3..7

IsSigWrite(l) ==
    /\ IsDispatched(l)
    /\ \E ci \in 1..Len(esc_config_head) : SignsAt(ci, l) \/ UnsignsAt(ci, l)

IsChangeOf(l, p, f) ==
    /\ IsDispatched(l)
    /\ \E ci \in 1..Len(esc_config_head) : ChangesAt(ci, l)
    /\ LinePlate(l) = p
    /\ LineField(l) = f

\* Line i of the file is in the signing transaction of the node: a sign
\* before it is not followed by another write to the signature field, and
\* the key does not change from the sign to line i
InSigningTxn(i) ==
    \E k \in 1..(i - 1) :
        /\ IsSigWrite(stdin[k]) /\ sl_value(stdin[k], AUDITREC_NEWVALUE) # ""
        /\ \A j \in (k + 1)..(i - 1) : ~IsSigWrite(stdin[j])
        /\ \A j \in k..i :
              IsDispatched(stdin[j]) => TxnKey(stdin[j]) = TxnKey(stdin[k])

\* Line i discards the changes of plate p: a completing sign, or a data
\* change that reports the record of plate p as deleted or lost
DiscardsAt(i, p) ==
    \/ IsSigWrite(stdin[i]) /\ sl_value(stdin[i], AUDITREC_NEWVALUE) # ""
    \/ \E f \in 0..13 : IsChangeOf(stdin[i], p, f) /\ IsDeletedOrLost(stdin[i])

\* The lines read so far that changed field f of plate p and were recorded,
\* from the last discard on
ChangesSince(p, f) ==
    {i \in 1..pos :
        /\ IsChangeOf(stdin[i], p, f) /\ f >= 7
        /\ ~InSigningTxn(i)
        /\ \A k \in (i + 1)..pos : ~DiscardsAt(k, p)}

First(S) == CHOOSE i \in S : \A j \in S : i <= j
Latest(S)  == CHOOSE i \in S : \A j \in S : i >= j

\* C28: the old value of a FieldChange is the old value of the first change
\* of the field that was recorded since the last discard (a completing sign,
\* or a deleted or lost event of the plate), and its new value, user, date,
\* time and description are those of the latest such change; a field has a
\* FieldChange exactly if there is such a change.
C28_FirstOldLatestNew ==
    pc = "input" =>
        \A p \in {10, 11}, f \in 0..13 :
            LET S == ChangesSince(p, f)
            IN  /\ S # {} <=> \E n \in tree : <<p, f>> \in ChangesOf(n)
                /\ \A n \in tree :
                      <<p, f>> \in ChangesOf(n) =>
                          LET fc == n.plates[p].changes[f]
                              a  == stdin[First(S)]
                              z  == stdin[Latest(S)]
                          IN  /\ fc.old_value =
                                    decode_value(a, AUDITREC_OLDVALUE,
                                                 AUDITREC_OLDDECODE)
                              /\ fc.new_value =
                                    decode_value(z, AUDITREC_NEWVALUE,
                                                 AUDITREC_NEWDECODE)
                              /\ fc.who = sl_value(z, AUDITREC_USER)
                              /\ fc.date = sl_value(z, AUDITREC_DATE)
                              /\ fc.time = sl_value(z, AUDITREC_TIME)
                              /\ fc.desc = sl_value(z, AUDITREC_FIELDDESC)

\* C28 witness: field 12 of plate 11 was changed by u1 (old value o), by u2
\* and by u1 again a day later: the FieldChange has the old value of the
\* first change and the values of the third.
C28_Witness ==
    /\ pc = "input"
    /\ stdin = <<S_Write11, S_Exempt, V_Later>>
    /\ pos = 3
    /\ \E n \in tree :
          /\ <<11, 12>> \in ChangesOf(n)
          /\ n.plates[11].changes[12].old_value = "o"
          /\ n.plates[11].changes[12].new_value = "m=M"
          /\ n.plates[11].changes[12].who = "u1"
          /\ n.plates[11].changes[12].date = "20250102"
          /\ n.plates[11].changes[12].time = "130000"
          /\ n.plates[11].changes[12].desc = "desc2"

-----------------------------------------------------------------------------
(* C29: exclusions and further changes                                      *)

\* C29: a recorded change of a field that has a FieldChange already (the
\* line does not report the record as deleted or lost, which would discard
\* it first) leaves the FieldChange DECLINED with no comment, whatever its
\* status and comment were and whether or not the line matches a row of the
\* exclusion table; only a FieldChange that the line creates is ACCEPTED
\* with the comment "Administratively exempted", and that exactly if the line
\* matches a row and its old value is empty.
C29_ExclusionsForNewChangesOnly ==
    [][(ReadStep /\ IsChangeOf(sl', LinePlate(sl'), LineField(sl'))) =>
          \A n \in tree : \A m \in NodeOf(tree', n) :
              HasLineChange(m, sl') =>
                  LET fc == LineChange(m, sl')
                      exempted ==
                          /\ RowMatches(sl')
                          /\ sl_value(sl', AUDITREC_OLDVALUE) = ""
                  IN  IF HasLineChange(n, sl') /\ ~IsDeletedOrLost(sl')
                      THEN /\ fc.status.changeStatus = CHANGE_DECLINED
                           /\ fc.comment = NULL
                      ELSE IF exempted
                      THEN /\ fc.status.changeStatus = CHANGE_ACCEPTED
                           /\ fc.comment = "Administratively exempted"
                      ELSE /\ fc.status.changeStatus = CHANGE_DECLINED
                           /\ fc.comment = NULL]_vars

\* C29 witness: u2 made the exempted change of field 12 of plate 11 twice;
\* the second line matches the exclusion row as the first did, and the
\* FieldChange is DECLINED without comment.
C29_Witness ==
    /\ pc = "input"
    /\ stdin = <<S_Exempt, S_Exempt>>
    /\ pos = 2
    /\ RowMatches(sl) /\ sl_value(sl, AUDITREC_OLDVALUE) = ""
    /\ \E n \in tree :
          /\ HasLineChange(n, sl)
          /\ LineChange(n, sl).status.changeStatus = CHANGE_DECLINED
          /\ LineChange(n, sl).comment = NULL
          /\ LineChange(n, sl).old_value = ""

-----------------------------------------------------------------------------
(* C30: propagation of the change status                                    *)

\* The greatest of a finite non-empty set of numbers
Greatest(S) == CHOOSE x \in S : \A y \in S : x >= y

\* C30: evaluate_tree leaves every node with the greatest changeStatus of its
\* covered plates (NONE = 0 if it has none), and every covered plate with the
\* greatest of the changeStatus it had before the pass and the changeStatus
\* its FieldChanges have after it, in the order NONE < ACCEPTED < DECLINED <
\* DECLINED_ATFINAL; the plate's value is not reset.
C30_ChangeStatusIsMaximum ==
    [][EvalStep =>
        /\ CHANGE_NONE < CHANGE_ACCEPTED
        /\ CHANGE_ACCEPTED < CHANGE_DECLINED
        /\ CHANGE_DECLINED < CHANGE_DECLINED_ATFINAL
        /\ \A n \in tree :
              /\ NodeOf(tree', n) # {}
              /\ \A m \in NodeOf(tree', n) :
                    /\ DOMAIN m.plates = DOMAIN n.plates
                    /\ m.status.changeStatus =
                          Greatest({CHANGE_NONE} \cup
                                   {m.plates[p].status.changeStatus :
                                       p \in DOMAIN m.plates})
                    /\ \A p \in DOMAIN m.plates :
                          /\ DOMAIN m.plates[p].changes
                                = DOMAIN n.plates[p].changes
                          /\ m.plates[p].status.changeStatus =
                                Greatest({n.plates[p].status.changeStatus} \cup
                                         {m.plates[p].changes[f].status.changeStatus :
                                             f \in DOMAIN m.plates[p].changes})]_vars

\* C30 witness: after the pass a plate with no FieldChange is DECLINED, as it
\* was before the pass (a lost, deleted or error event of a signed node in
\* the signing transaction), and so is the node.
C30_Witness ==
    /\ pc = "evaluated"
    /\ \E n \in tree :
          /\ 10 \in DOMAIN n.plates
          /\ n.plates[10].changes = EmptyTree
          /\ n.plates[10].status.changeStatus = CHANGE_DECLINED
          /\ n.status.changeStatus = CHANGE_DECLINED

-----------------------------------------------------------------------------
(* C31: the record status of a node                                         *)

\* C31: evaluate_tree leaves every node with the recStatus of its covered
\* plate entry for the signature plate, and NORMAL if it has no such entry;
\* the pass does not change the recStatus of a plate, and the recStatus of the
\* other covered plates does not count.
C31_NodeRecStatusFromSigPlate ==
    [][EvalStep =>
        \A n \in tree :
            /\ NodeOf(tree', n) # {}
            /\ \A m \in NodeOf(tree', n) :
                  /\ \A p \in DOMAIN n.plates :
                        /\ p \in DOMAIN m.plates
                        /\ m.plates[p].status.recStatus
                              = n.plates[p].status.recStatus
                  /\ m.status.recStatus =
                        IF Config(n).sig_plate \in DOMAIN n.plates
                        THEN n.plates[Config(n).sig_plate].status.recStatus
                        ELSE RECORD_NORMAL]_vars

\* C31 witness: after the pass a node whose signature plate 10 is DELETED and
\* whose plate 11 is LOST is DELETED.
C31_Witness ==
    /\ pc = "evaluated"
    /\ \E n \in tree :
          /\ Config(n).sig_plate = 10
          /\ DOMAIN n.plates = {10, 11}
          /\ n.plates[10].status.recStatus = RECORD_DELETED
          /\ n.plates[11].status.recStatus = RECORD_LOST
          /\ n.status.recStatus = RECORD_DELETED

-----------------------------------------------------------------------------
(* C32: resignAtFinal and nodes with final and non-final plates             *)

\* Node n is COMPLETE, its signature plate record is NORMAL and a final
\* covered plate of it holds a DECLINED FieldChange
FinalPlateDeclined(n) ==
    /\ n.status.signatureStatus = SIG_COMPLETE
    /\ n.status.recStatus = RECORD_NORMAL
    /\ \E pf \in ChangesOf(n) :
          /\ n.plates[pf[1]].is_final = 1
          /\ n.plates[pf[1]].changes[pf[2]].status.changeStatus
                = CHANGE_DECLINED

\* A FieldChange of node n is DECLINED_ATFINAL
SomeChangeAtFinal(n) ==
    \E pf \in ChangesOf(n) :
        n.plates[pf[1]].changes[pf[2]].status.changeStatus
            = CHANGE_DECLINED_ATFINAL

\* C32 as stated: with resignAtFinal on, a COMPLETE node with a NORMAL
\* signature plate record and a DECLINED FieldChange on a final covered plate
\* is in the DRF, also when another covered plate holds a change promoted to
\* DECLINED_ATFINAL.
C32_FinalPlateChangeEmitted ==
    (pc = "done" /\ resign_at_final = 1) =>
        \A n \in tree :
            FinalPlateDeclined(n) =>
                \E i \in DOMAIN drf : drf[i] = drf_line(n)

\* C32 (amended): with resignAtFinal on, a COMPLETE node with a NORMAL
\* signature plate record and a DECLINED FieldChange on a final covered plate
\* is in the DRF exactly if none of its FieldChanges is DECLINED_ATFINAL: a
\* change promoted on a non-final plate makes the node DECLINED_ATFINAL, the
\* greatest status, and the DRF takes COMPLETE nodes that are DECLINED only;
\* the change of the final plate stays DECLINED.
C32_AtFinalHidesFinalPlateChange ==
    (pc = "done" /\ resign_at_final = 1) =>
        \A n \in tree :
            FinalPlateDeclined(n) =>
                ((\E i \in DOMAIN drf : drf[i] = drf_line(n))
                    <=> ~SomeChangeAtFinal(n))

\* C32 witness: u1 signed, u2 changed plate 11 (not final) and plate 10
\* (final); with resignAtFinal on the change of plate 10 is DECLINED, that of
\* plate 11 DECLINED_ATFINAL, and the DRF is empty.
C32_Witness ==
    /\ pc = "done"
    /\ resign_at_final = 1 /\ allow_signer_changes = 0
    /\ stdin = <<S_Sign8, S_NotFinal, S_OtherPlt>>
    /\ drf = <<>>
    /\ \E n \in tree :
          /\ FinalPlateDeclined(n)
          /\ n.plates[10].is_final = 1
          /\ n.plates[10].changes[12].status.changeStatus = CHANGE_DECLINED
          /\ n.plates[11].is_final = 0
          /\ n.plates[11].changes[12].status.changeStatus
                = CHANGE_DECLINED_ATFINAL

-----------------------------------------------------------------------------
(* C33: what unsign leaves alone                                            *)

\* C33: the pass of the for loop that takes the line as an empty write to a
\* signature field (record ci) changes, in the node it works on, the
\* completed flag and the value of the signature field entries for the line's
\* field, the signatureStatus (COMPLETE becomes INVALIDATED, NONE and
\* INVALIDATED stay) and txn_id (0 afterwards), and nothing else: signer, date
\* and time, the covered plates with their statuses and FieldChanges, and the
\* other signature field entries are as before the call.
C33_UnsignFrame ==
    [][LineStep =>
        \A ci \in 1..Len(esc_config_head) :
            UnsignsAt(ci, sl') =>
                LET before == TreeAtRecord(tree, ci, sl', txn_id')
                    after  == TreeAtRecord(tree, ci + 1, sl', txn_id')
                    n      == NodeAtRecord(before, ci, sl')
                IN  /\ NodesFor(after, ci, sl') # {}
                    /\ ci = Len(esc_config_head)
                          => NodesFor(tree', ci, sl') = NodesFor(after, ci, sl')
                    /\ \A m \in NodesFor(after, ci, sl') :
                          /\ m.signer = n.signer
                          /\ m.date = n.date
                          /\ m.time = n.time
                          /\ m.plates = n.plates
                          /\ m.id = n.id /\ m.visit = n.visit
                          /\ m.config = n.config /\ m.flags = n.flags
                          /\ m.status.recStatus = n.status.recStatus
                          /\ m.status.changeStatus = n.status.changeStatus
                          /\ m.status.signatureStatus =
                                IF n.status.signatureStatus = SIG_COMPLETE
                                THEN SIG_INVALIDATED
                                ELSE n.status.signatureStatus
                          /\ m.txn_id = 0
                          /\ DOMAIN m.sig_fields = DOMAIN n.sig_fields
                          /\ \A i \in DOMAIN n.sig_fields :
                                IF n.sig_fields[i].field = LineField(sl')
                                THEN /\ m.sig_fields[i].completed = FALSE
                                     /\ m.sig_fields[i].value = ""
                                     /\ m.sig_fields[i].desc = n.sig_fields[i].desc
                                     /\ m.sig_fields[i].field = n.sig_fields[i].field
                                ELSE m.sig_fields[i] = n.sig_fields[i]]_vars

\* C33 witness: signature field 8 has been cleared on a node that u1 signed
\* and that has pending FieldChanges: the node is INVALIDATED with txn_id 0,
\* u1 is still its signer and the changes are still there.
C33_Witness ==
    /\ pc = "input"
    /\ sl = Write("20250101", "u1", "10", "8", "1", "1", "", "")
    /\ \E n \in tree :
          /\ n.status.signatureStatus = SIG_INVALIDATED
          /\ n.txn_id = 0
          /\ n.signer = "u1" /\ n.date = "20250101" /\ n.time = "120000"
          /\ <<11, 12>> \in ChangesOf(n)

-----------------------------------------------------------------------------
(* C34: what is written to the database, and when                           *)

\* signature "A" plate 10 visit * fields 8-9 { plate 10; plate 11; }
SinkConfig ==
    <<[name |-> "A", plate |-> 10, star |-> TRUE, visits |-> <<>>,
       fields |-> <<<<8, 9>>>>,
       plates |-> <<[plate |-> 10, ignore |-> <<>>],
                    [plate |-> 11, ignore |-> <<>>]>>]>>

\* u1 writes signature field 9; u1 writes key field 1 of plate 10
V_Sign9 == Write("20250101", "u1", "10", "9", "1", "1", "", "u1")
V_Key1  == Write("20250101", "u1", "10", "1", "1", "1", "o", "k")

SinkLines == {S_Write11, S_Sign8, V_Sign9, T_Data, S_Unsign8, V_Key1}

\* Every audit file of at most MaxLines + 1 of these lines
SinkInputs == UNION {[1..k -> SinkLines] : k \in 0..(MaxLines + 1)}

\* The state of main() when process_input is called and option -D gave a
\* database that db_open could open
InitSink ==
    \E input \in SinkInputs :
        /\ esc_config_head = config(SinkConfig, 0)
        /\ exclusions = ExclusionList
        /\ allow_signer_changes = 0
        /\ resign_at_final = 0
        /\ stdin = input
        /\ pos = 0
        /\ sl = <<>>
        /\ txn_id = 0
        /\ last_txn = <<>>
        /\ tree = {}
        /\ drf = <<>>
        /\ pc = "input"
        /\ argv = <<[opt |-> "c", file |-> "ok"], [opt |-> "d", file |-> "ok"],
                     [opt |-> "D", file |-> "ok"]>>
        /\ optind = Len(argv)
        /\ yyin = [open |-> TRUE, items |-> Signatures(SinkConfig)]
        /\ opts = [config |-> "ok", drf |-> "ok", xls |-> "none"]
        /\ db = 1
        /\ db_rows = NoRows
        /\ files = {}
        /\ exit_code = -1
        /\ ranges = <<>>
        /\ text = <<>>
        /\ rc = 0

SpecSink == InitSink /\ [][NextScenario]_vars

\* The sign of line l through record ci completes the node n it finds: every
\* other signature field of n is completed
Completes(n, l) ==
    \A i \in DOMAIN n.sig_fields :
        n.sig_fields[i].field # LineField(l) => n.sig_fields[i].completed

\* The keys of the data_values rows of the pending changes of node n
PendingKeys(n, txn) ==
    {<<txn, Config(n).serial, pf[1], pf[2]>> : pf \in ChangesOf(n)}

\* C34: a sign that completes the node writes the signings row of the
\* transaction, the value of every signature field and the new value of every
\* FieldChange the node has before the sign, all under the signing
\* transaction, and the node has no FieldChange afterwards; a sign that does
\* not complete the node, an unsign and a data change outside the signing
\* transaction write nothing; a data change in the signing transaction
\* (txn = node.txn_id) writes the one data_values row of its plate and field
\* under the node's txn_id.
C34_SinkWrittenBeforeClear ==
    [][ReadStep =>
        /\ (\A ci \in 1..Len(esc_config_head) :
                ~ConfigApplies(esc_config_head[ci], sl')) => db_rows' = db_rows
        /\ \A ci \in 1..Len(esc_config_head) :
              LET n   == NodeAtRecord(tree, ci, sl')
                  txn == txn_id'
                  sid == Config(n).serial
              IN  /\ UnsignsAt(ci, sl') => db_rows' = db_rows
                  /\ (SignsAt(ci, sl') /\ ~Completes(n, sl')) =>
                        db_rows' = db_rows
                  /\ (SignsAt(ci, sl') /\ Completes(n, sl')) =>
                        /\ db_rows'.signings =
                              (<<txn, sid>> :>
                                  <<n.id, n.visit, Config(n).sig_plate,
                                    Config(n).name,
                                    sl_value(sl', AUDITREC_USER),
                                    sl_value(sl', AUDITREC_DATE),
                                    sl_value(sl', AUDITREC_TIME)>>)
                              @@ db_rows.signings
                        /\ \A m \in NodesFor(tree', ci, sl') :
                              /\ ChangesOf(m) = {}
                              /\ \A i \in DOMAIN m.sig_fields :
                                    LET k == <<txn, sid, Config(n).sig_plate,
                                               m.sig_fields[i].field>>
                                    IN  /\ k \in DOMAIN db_rows'.signature_values
                                        /\ db_rows'.signature_values[k] =
                                              <<m.sig_fields[i].desc,
                                                m.sig_fields[i].value>>
                        /\ DOMAIN db_rows'.data_values =
                              DOMAIN db_rows.data_values \cup PendingKeys(n, txn)
                        /\ \A pf \in ChangesOf(n) :
                              db_rows'.data_values[<<txn, sid, pf[1], pf[2]>>] =
                                  <<n.plates[pf[1]].changes[pf[2]].desc,
                                    n.plates[pf[1]].changes[pf[2]].new_value>>
                        /\ \A k \in DOMAIN db_rows.data_values \ PendingKeys(n, txn) :
                              db_rows'.data_values[k] = db_rows.data_values[k]
                  /\ (ChangesAt(ci, sl') /\ n.txn_id # txn) => db_rows' = db_rows
                  /\ (ChangesAt(ci, sl') /\ n.txn_id = txn) =>
                        /\ db_rows'.signings = db_rows.signings
                        /\ db_rows'.signature_values = db_rows.signature_values
                        /\ db_rows'.data_values =
                              (<<n.txn_id, sid, LinePlate(sl'), LineField(sl')>> :>
                                  <<sl_value(sl', AUDITREC_FIELDDESC),
                                    sl_value(sl', AUDITREC_NEWVALUE)>>)
                              @@ db_rows.data_values]_vars

\* C34 witness: field 12 of plate 11 was changed, then u1 wrote both
\* signature fields and changed field 12 of plate 10 in the same transaction:
\* the database has the signings row of transaction 2, the two signature
\* values, the pending change of plate 11 and the later change of plate 10,
\* and the node has no FieldChange.
C34_Witness ==
    /\ pc = "input"
    /\ stdin = <<S_Write11, S_Sign8, V_Sign9, T_Data>>
    /\ pos = 4
    /\ \E n \in tree :
          /\ n.txn_id = 2 /\ txn_id = 2
          /\ ChangesOf(n) = {}
          /\ DOMAIN db_rows.signings = {<<2, Config(n).serial>>}
          /\ DOMAIN db_rows.signature_values =
                {<<2, Config(n).serial, 10, 8>>, <<2, Config(n).serial, 10, 9>>}
          /\ DOMAIN db_rows.data_values =
                {<<2, Config(n).serial, 11, 12>>, <<2, Config(n).serial, 10, 12>>}

-----------------------------------------------------------------------------
(* C35: a second propagation pass                                           *)

\* C35: when evaluate_tree has run, running it again with the same two
\* policies gives the same tree: every status of every node, plate and
\* FieldChange, every comment and every field_change_count is as after the
\* first pass.
C35_EvaluateTwice ==
    pc = "evaluated" =>
        /\ evaluate_tree(tree, allow_signer_changes, resign_at_final) = tree
        /\ \A n \in tree :
              \A p \in DOMAIN n.plates :
                  n.plates[p].field_change_count
                      = Cardinality(DOMAIN n.plates[p].changes)

\* C35 witness: the pass ran with both policies on over a node with a change
\* by its signer (ACCEPTED, "Changed by Signer") and a change by another user
\* on a plate that is not final (DECLINED_ATFINAL).
C35_Witness ==
    /\ pc = "evaluated"
    /\ allow_signer_changes = 1 /\ resign_at_final = 1
    /\ \E n \in tree :
          /\ \E pf \in ChangesOf(n) :
                /\ n.plates[pf[1]].changes[pf[2]].comment = "Changed by Signer"
                /\ n.plates[pf[1]].changes[pf[2]].status.changeStatus
                      = CHANGE_ACCEPTED
          /\ \E pf \in ChangesOf(n) :
                n.plates[pf[1]].changes[pf[2]].status.changeStatus
                    = CHANGE_DECLINED_ATFINAL
          /\ evaluate_tree(tree, 1, 1) = tree

-----------------------------------------------------------------------------
(* C36: the moves of the signature status                                   *)

\* C36: in every step a node keeps its signatureStatus or moves from NONE to
\* COMPLETE, from COMPLETE to INVALIDATED or from INVALIDATED to COMPLETE; it
\* moves to INVALIDATED only when the line is an empty write to a signature
\* field for some record, and to COMPLETE only when it is a non-empty one; a
\* line that no record takes as a signature write (a data change, also one
\* that reports the signature plate deleted or lost) and the propagation pass
\* leave it as it is.  A node starts as NONE or, signed by its first line, as
\* COMPLETE.
C36_SignatureStatusMoves ==
    [][/\ \A n \in tree :
            /\ NodeOf(tree', n) # {}
            /\ \A m \in NodeOf(tree', n) :
                  LET a == n.status.signatureStatus
                      b == m.status.signatureStatus
                  IN  /\ \/ a = b
                         \/ a = SIG_NONE /\ b = SIG_COMPLETE
                         \/ a = SIG_COMPLETE /\ b = SIG_INVALIDATED
                         \/ a = SIG_INVALIDATED /\ b = SIG_COMPLETE
                      /\ (a # b /\ b = SIG_INVALIDATED) =>
                            /\ ReadStep
                            /\ \E ci \in 1..Len(esc_config_head) :
                                  UnsignsAt(ci, sl')
                      /\ (a # b /\ b = SIG_COMPLETE) =>
                            /\ ReadStep
                            /\ \E ci \in 1..Len(esc_config_head) :
                                  SignsAt(ci, sl')
       /\ \A m \in tree' :
            (\A n \in tree : esn_compare(m, n) # 0) =>
                m.status.signatureStatus \in {SIG_NONE, SIG_COMPLETE}]_vars

\* C36 witness: field 12 of signature plate 10 was written with status 7 on a
\* node that had been signed and unsigned: the plate is DELETED and the node
\* still INVALIDATED.
C36_Witness ==
    /\ pc = "input"
    /\ sl = Write("20250101", "u1", "10", "12", "7", "1", "o", "n")
    /\ \E n \in tree :
          /\ n.status.signatureStatus = SIG_INVALIDATED
          /\ 10 \in DOMAIN n.plates
          /\ n.plates[10].status.recStatus = RECORD_DELETED

------------------------------------------------------------------------

-----------------------------------------------------------------------------
(* C37: signatures that cannot be signed                                    *)

\* signature "D" plate 10 visit * fields 8 { plate 11; }
\* signature "A" plate 10 visit * fields 8 { plate 10; plate 11; }
\* signature "B" plate 10 visit * fields 9 { plate 10 ignore fields 9; }
\* signature "C" plate 11 visit * fields 8 { plate 10; }
UnsignableConfig ==
    <<[name |-> "D", plate |-> 10, star |-> TRUE, visits |-> <<>>,
       fields |-> <<<<8, 8>>>>,
       plates |-> <<[plate |-> 11, ignore |-> <<>>]>>],
      [name |-> "A", plate |-> 10, star |-> TRUE, visits |-> <<>>,
       fields |-> <<<<8, 8>>>>,
       plates |-> <<[plate |-> 10, ignore |-> <<>>],
                    [plate |-> 11, ignore |-> <<>>]>>],
      [name |-> "B", plate |-> 10, star |-> TRUE, visits |-> <<>>,
       fields |-> <<<<9, 9>>>>,
       plates |-> <<[plate |-> 10, ignore |-> <<<<9, 9>>>>]>>],
      [name |-> "C", plate |-> 11, star |-> TRUE, visits |-> <<>>,
       fields |-> <<<<8, 8>>>>,
       plates |-> <<[plate |-> 10, ignore |-> <<>>]>>]>>

\* u1 writes or clears fields 8 and 9 of plates 10 and 11 and changes field 12
UnsignableEvents ==
    {Write("20250101", "u1", p, f, "1", "1", "", v) :
        p \in {"10", "11"}, f \in {"8", "9"}, v \in {"", "x"}}
    \cup {Write("20250101", "u1", p, "12", "1", "1", "o", "n") :
             p \in {"10", "11"}}

InitUnsignable == InitWith(UnsignableConfig, <<>>)

ReadUnsignableEvent ==
    /\ stdin = <<>>
    /\ \E l \in UnsignableEvents :
          /\ LineSkipped(l) \/ TxnKey(l) = last_txn \/ txn_id < MaxTxn
          /\ ReadLine(l)
    /\ UNCHANGED <<stdin, pos>>

NextUnsignable == ReadUnsignableEvent \/ EvaluateTree \/ WriteDrf

SpecUnsignable == InitUnsignable /\ [][NextUnsignable]_vars

\* Record c is one through which a line can sign: its covered plate is the
\* signature plate and field f is a signature field that it does not ignore
SigningRecord(c, f) ==
    /\ c.plate = c.sig_plate
    /\ \E i \in 1..Len(c.sig_fields) :
          c.sig_fields[i].min <= f /\ f <= c.sig_fields[i].max
    /\ \A i \in 1..Len(c.ignore_fields) :
          f < c.ignore_fields[i].min \/ f > c.ignore_fields[i].max

\* The signature called name has a record through which a line can sign
CanBeSigned(name) ==
    \E ci \in 1..Len(esc_config_head), f \in 0..13 :
        /\ esc_config_head[ci].name = name
        /\ SigningRecord(esc_config_head[ci], f)

\* A signature with the key of node m (signature plate and least signature
\* field) has a record through which a line can sign
KeyCanBeSigned(m) ==
    \E ci \in 1..Len(esc_config_head), f \in 0..13 :
        /\ SigningRecord(esc_config_head[ci], f)
        /\ esc_config_head[ci].sig_plate = Config(m).sig_plate
        /\ rl_min(esc_config_head[ci].sig_fields)
              = rl_min(Config(m).sig_fields)

\* C37 as stated: the nodes of a signature that has no record through which
\* a line can sign (its plate list lacks the signature plate, or lists it
\* with the signature fields ignored) are NONE in every state.
C37_UnsignableStaysNone ==
    \A m \in tree :
        ~CanBeSigned(Config(m).name) => m.status.signatureStatus = SIG_NONE

\* C37 (amended): a node becomes COMPLETE only in a step that reads a
\* non-empty write to a signature field through a record whose covered plate
\* is the signature plate and that does not ignore the field; a node is NONE
\* in every state if no signature with its key (signature plate and least
\* signature field) has such a record.  The node of a signature without such
\* a record is completed through the record of another signature with the
\* same key, since the two share the node.
C37_CompleteOnlyThroughSigPlateRecord ==
    [][\A m \in tree' :
          /\ ~KeyCanBeSigned(m) => m.status.signatureStatus = SIG_NONE
          /\ (/\ m.status.signatureStatus = SIG_COMPLETE
              /\ \A n \in NodeOf(tree, m) :
                    n.status.signatureStatus # SIG_COMPLETE) =>
                /\ ReadStep
                /\ sl_value(sl', AUDITREC_NEWVALUE) # ""
                /\ \E ci \in 1..Len(esc_config_head) :
                      /\ esc_config_head[ci].plate = LinePlate(sl')
                      /\ SigningRecord(esc_config_head[ci], LineField(sl'))
                      /\ RecordKey(ci, sl') = NodeKey(m)]_vars

\* C37 witness: plate 11 was written first, so that the node with the key of
\* A and D has D's record, and then signature field 8 of plate 10: the node
\* of D is COMPLETE through A's record, and the nodes of B and C are NONE.
C37_Witness ==
    /\ pc = "input"
    /\ sl = Write("20250101", "u1", "10", "8", "1", "1", "", "x")
    /\ \E d \in tree, b \in tree, c \in tree :
          /\ Config(d).name = "D" /\ d.status.signatureStatus = SIG_COMPLETE
          /\ Config(b).name = "B" /\ b.status.signatureStatus = SIG_NONE
          /\ Config(c).name = "C" /\ c.status.signatureStatus = SIG_NONE
          /\ 10 \in DOMAIN b.plates /\ 10 \in DOMAIN c.plates


-----------------------------------------------------------------------------
(* C38: the signer policy looks at the latest change of a field             *)

\* The users of the recorded changes of field f of plate p
ChangedBy(p, f) ==
    {sl_value(stdin[i], AUDITREC_USER) : i \in ChangesSince(p, f)}

\* The signer policy accepted the change of field pf[2] of plate pf[1]
AcceptedBySignerPolicy(n, pf) ==
    LET fc == n.plates[pf[1]].changes[pf[2]]
    IN  /\ fc.comment = "Changed by Signer"
        /\ fc.status.changeStatus = CHANGE_ACCEPTED

\* C38 as stated: with allowSignerChanges on, a field that a user other than
\* the signer changed after the signing transaction is not accepted by the
\* signer policy, whoever changed it afterwards.
C38_OtherUserNeverAccepted ==
    (pc = "evaluated" /\ allow_signer_changes = 1) =>
        \A n \in tree :
            \A pf \in ChangesOf(n) :
                (\E u \in ChangedBy(pf[1], pf[2]) : u # n.signer) =>
                    ~AcceptedBySignerPolicy(n, pf)

\* C38 (amended): after propagation a FieldChange is accepted as "Changed by
\* Signer" exactly if allowSignerChanges is on, the node has a signer and
\* the latest recorded change of the field was made by the signer; changes
\* of the field by other users before that one do not count, and a change
\* by another user after the signer's is not accepted by the policy.
C38_LatestChangeBySigner ==
    pc = "evaluated" =>
        \A n \in tree :
            \A pf \in ChangesOf(n) :
                AcceptedBySignerPolicy(n, pf) <=>
                    /\ allow_signer_changes = 1
                    /\ n.signer # NULL
                    /\ sl_value(stdin[Latest(ChangesSince(pf[1], pf[2]))],
                                AUDITREC_USER) = n.signer

\* C38 witness: u1 signs, u2 changes field 12 of plate 11 and u1 changes it
\* again; with allowSignerChanges on the change is "Changed by Signer".
C38_Witness ==
    /\ pc = "evaluated"
    /\ allow_signer_changes = 1
    /\ stdin = <<S_Sign8, S_Change, S_OtherUsr>>
    /\ \E n \in tree :
          /\ n.signer = "u1"
          /\ <<11, 12>> \in ChangesOf(n)
          /\ ChangedBy(11, 12) = {"u1", "u2"}
          /\ AcceptedBySignerPolicy(n, <<11, 12>>)


-----------------------------------------------------------------------------
(* C39: the serial of a node's configuration record                         *)

\* u1 signs field 8 of plate 10, and changes field 12 of plate 11, at visits
\* 1 and 2 of patient 1
SerialLines ==
    {VisitWrite(v, "10", "8", "1", "u1") : v \in {"1", "2"}}
    \cup {VisitWrite(v, "11", "12", "1", "n") : v \in {"1", "2"}}

\* Every audit file of at most MaxLines + 1 of these lines
SerialInputs == UNION {[1..k -> SerialLines] : k \in 0..(MaxLines + 1)}

\* The state of main() when process_input is called with the configuration
\* of one signature that covers plates 10 and 11 and an open database
InitSerial ==
    \E input \in SerialInputs :
        /\ esc_config_head = config(S1Config8, 0)
        /\ exclusions = ExclusionList
        /\ allow_signer_changes = 0
        /\ resign_at_final = 0
        /\ stdin = input
        /\ pos = 0
        /\ sl = <<>>
        /\ txn_id = 0
        /\ last_txn = <<>>
        /\ tree = {}
        /\ drf = <<>>
        /\ pc = "input"
        /\ argv = <<[opt |-> "c", file |-> "ok"], [opt |-> "d", file |-> "ok"],
                     [opt |-> "D", file |-> "ok"]>>
        /\ optind = Len(argv)
        /\ yyin = [open |-> TRUE, items |-> Signatures(S1Config8)]
        /\ opts = [config |-> "ok", drf |-> "ok", xls |-> "none"]
        /\ db = 1
        /\ db_rows = NoRows
        /\ files = {}
        /\ exit_code = -1
        /\ ranges = <<>>
        /\ text = <<>>
        /\ rc = 0

SpecSerial == InitSerial /\ [][NextScenario]_vars

C39_SigidOfFirstPlate ==
    pc = "input" =>
        \A k \in DOMAIN db_rows.signings :
            \E i \in 1..pos, ci \in 1..Len(esc_config_head) :
                /\ LineVisit(stdin[i]) = db_rows.signings[k][2]
                /\ \A j \in 1..(i - 1) : LineVisit(stdin[j]) # LineVisit(stdin[i])
                /\ esc_config_head[ci].plate = LinePlate(stdin[i])
                /\ esc_config_head[ci].serial = k[2]

====
